---- MODULE Spec2Model ----
(***************************************************************************)
(* Model of the cabi-testgen generator (package generator): the wrapped    *)
(* random stream, the tunables and their scoped overrides, the random type *)
(* and function builder, the caller and checker emitters with the helper   *)
(* registry, and the Generate driver with its function and package masks.  *)
(***************************************************************************)
EXTENDS Integers, Sequences, FiniteSets, TLC

\* ------------------------------------------------------------------ bounds

\* Generate is run with seeds 0 .. MaxSeed.
MaxSeed == 2

\* numit: functions per package.
NumFuncs == 3

\* numtpkgs: number of test packages.
NumPkgs == 2

\* The -inlimit and -outlimit of the run.
InLimit == 3

OutLimit == 2

\* Leftover states of the global random source are 0 .. MaxRnd.
MaxRnd == 1

\* the largest failure limit (maxfail) Generate is given
MaxFail == 2

\* ------------------------------------------------------- the random stream

\* The source behind math/rand is modelled as a residue modulo the prime
\* 65537, advanced by a linear step that also folds in which primitive was
\* called and with what bound, so that two streams that issue different
\* calls return different values afterwards.
Min(a, b) == IF a < b THEN a ELSE b

RECURSIVE Pow2(_)
Pow2(n) == IF n = 0 THEN 1 ELSE 2 * Pow2(n - 1)

\* for i := lo; i <= hi; i++ { st = Step(st, i) }, left once Stop(st)
\* holds (a panic).  The range is split in halves, the first taken before
\* the second.
RECURSIVE ForRange(_, _, _, _, _)
ForRange(Step(_, _), Stop(_), st, lo, hi) ==
  IF lo >= hi
  THEN (IF lo > hi \/ Stop(st) THEN st ELSE Step(st, lo))
  ELSE CHOOSE res \in
         {IF Stop(l) THEN l
          ELSE ForRange(Step, Stop, l, (lo + hi) \div 2 + 1, hi) :
            l \in {ForRange(Step, Stop, st, lo, (lo + hi) \div 2)}} : TRUE

GPanicked(st) == st.g.panicked

Panicked(e) == e.panicked

EPanicked(st) == st.e.panicked

\* a wraprand made without reseeding the global source
MutNewWrapRand(seed, rnd) ==
  [s |-> (seed * 35066 + 22137 + rnd) % 65537,
   intncalls |-> 0, f32calls |-> 0, f64calls |-> 0,
   calls |-> <<>>, panicked |-> FALSE]

\* rand.Seed(seed); &wraprand{seed: seed}.  rnd is the state the global
\* source was left in; seeding replaces it.
NewWrapRand(seed, rnd) ==
  [s |-> (seed * 35066 + 22137) % 65537,
   intncalls |-> 0, f32calls |-> 0, f64calls |-> 0,
   calls |-> <<>>, panicked |-> FALSE]

RandStep(s, salt) == (s * 75 + 74 + salt) % 65537

\* w.intncalls++; return rand.Intn(n).  rand.Intn panics when n <= 0.
Intn(w, n) ==
  IF n <= 0
  THEN [w |-> [w EXCEPT !.panicked = TRUE, !.intncalls = @ + 1,
                        !.calls = Append(@, <<"Intn", n>>)],
        v |-> 0]
  ELSE LET s2 == RandStep(w.s, 1 + (n % 1000))
       IN [w |-> [w EXCEPT !.s = s2, !.intncalls = @ + 1,
                           !.calls = Append(@, <<"Intn", n>>)],
           v |-> s2 % n]

\* rand.Intn(n) called on the global source directly: the stream advances,
\* no counter does.
RawIntn(w, n) ==
  LET s2 == RandStep(w.s, 1 + (n % 1000))
  IN [w |-> [w EXCEPT !.s = s2, !.calls = Append(@, <<"rand.Intn", n>>)],
      v |-> s2 % n]

\* rand.Intn(1 << sh): the bound is kept as its shift, since 1 << 62 is
\* outside the checker's integers; the value is the stream state reduced
\* to the bound when the bound is below the stream's width.
IntnShift(w, sh) ==
  LET s2 == RandStep(w.s, 1 + sh)
  IN [w |-> [w EXCEPT !.s = s2, !.intncalls = @ + 1,
                      !.calls = Append(@, <<"Intn1<<", sh>>)],
      v |-> IF sh > 16 THEN s2 ELSE s2 % Pow2(sh)]

\* w.f32calls++; return rand.Float32()
Float32(w) ==
  LET s2 == RandStep(w.s, 2003)
  IN [w |-> [w EXCEPT !.s = s2, !.f32calls = @ + 1,
                      !.calls = Append(@, <<"Float32", 0>>)],
      v |-> s2]

\* w.f64calls++; return rand.NormFloat64()
NormFloat64(w) ==
  LET s2 == RandStep(w.s, 3001)
  IN [w |-> [w EXCEPT !.s = s2, !.f64calls = @ + 1,
                      !.calls = Append(@, <<"NormFloat64", 0>>)],
      v |-> s2]

\* wraprand.Equal
WrEqual(w, w2) ==
  /\ w.f32calls = w2.f32calls
  /\ w.f64calls = w2.f64calls
  /\ w.intncalls = w2.intncalls

\* ------------------------------------------------------------- tunables

StructTfIdx == 1
ArrayTfIdx == 2
MapTfIdx == 3
PointerTfIdx == 4
NumericTfIdx == 5
FloatTfIdx == 6
ComplexTfIdx == 7
ByteTfIdx == 8
StringTfIdx == 9

defaultTypeFractions == <<10, 10, 10, 15, 20, 15, 5, 5, 10>>

\* var tunables = TunableParams{...}
tunables ==
  [nParmRange |-> 15, nReturnRange |-> 7, nStructFields |-> 7,
   nArrayElements |-> 5, sliceFraction |-> 50,
   intBitRanges |-> <<30, 20, 20, 30>>,
   floatBitRanges |-> <<50, 50>>,
   unsignedRanges |-> <<50, 50>>,
   blankPerc |-> 15, structDepth |-> 3,
   typeFractions |-> defaultTypeFractions,
   recurPerc |-> 20, methodPerc |-> 10, pointerMethodCallPerc |-> 50,
   doReflectCall |-> TRUE, doDefer |-> TRUE, takeAddress |-> TRUE,
   doFuncCallValues |-> TRUE, takenFraction |-> 20, deferFraction |-> 30,
   funcCallValFraction |-> 5,
   addrFractions |-> <<50, 25, 15, 10>>]

RECURSIVE SeqSum(_)
SeqSum(q) == IF q = <<>> THEN 0 ELSE Head(q) + SeqSum(Tail(q))

\* checkTunables: TRUE when no log.Fatal / panic is raised.
checkTunables(t) ==
  /\ SeqSum(t.intBitRanges) = 100
  /\ SeqSum(t.unsignedRanges) = 100
  /\ t.blankPerc <= 100
  /\ t.recurPerc <= 100
  /\ t.methodPerc <= 100
  /\ t.pointerMethodCallPerc <= 100
  /\ SeqSum(t.floatBitRanges) = 100
  /\ SeqSum(t.typeFractions) = 100
  /\ SeqSum(t.addrFractions) = 100
  /\ t.takenFraction <= 100
  /\ t.deferFraction <= 100
  /\ t.sliceFraction <= 100

\* LimitInputs / LimitOutputs: the value is kept as a uint8
LimitInputs(t, n) ==
  IF n > 100 \/ n < 0 THEN t ELSE [t EXCEPT !.nParmRange = n % 256]

LimitOutputs(t, n) ==
  IF n > 100 \/ n < 0 THEN t ELSE [t EXCEPT !.nReturnRange = n % 256]

\* ----------------------------------------------------------- type model

notAddrTaken == 0
addrTakenSimple == 1
addrTakenPassed == 2
addrTakenHeap == 3

\* One record shape for every variant of the parm interface; kids holds
\* the component types (struct fields; array element; map key, value;
\* pointer target; typedef target).
MkParm(kind, tag, width, tn, qn, kids) ==
  [kind |-> kind, tag |-> tag, widthInBits |-> width, ctl |-> FALSE,
   blank |-> FALSE, addr |-> notAddrTaken, genval |-> FALSE,
   tn |-> tn, qn |-> qn, nelements |-> 0, slice |-> FALSE,
   keytmp |-> "", ns |-> 0, kids |-> kids]

NoParm == MkParm("none", "", 0, "", "", <<>>)

\* numparm.TypeName
NumTypeName(tag, width) ==
  IF tag = "byte" THEN "byte" ELSE tag \o ToString(width)

MkNumParm(tag, width) ==
  MkParm("num", tag, width, NumTypeName(tag, width),
         NumTypeName(tag, width), <<>>)

MkStringParm == MkParm("string", "string", 0, "string", "string", <<>>)

\* mkPointerParm, with pointerparm.TypeName and pointerparm.QualName
mkPointerParm(to) ==
  MkParm("pointer", "pointer", 0, "*" \o to.tn, "*" \o to.qn, <<to>>)

SetBlank(p, v) == [p EXCEPT !.blank = v]

checkerPkg(which) == "genChecker" \o ToString(which)

\* ---------------------------------------------- scoped tunable overrides

\* pushTunables: s.tstack = append(s.tstack, s.tunables)
pushTunables(g) == [g EXCEPT !.tstack = Append(@, g.tunables)]

\* popTunables: restores s.tstack[0] and drops it from the front.
popTunables(g) ==
  IF g.tstack = <<>>
  THEN [g EXCEPT !.panicked = TRUE]
  ELSE [g EXCEPT !.tunables = Head(g.tstack), !.tstack = Tail(g.tstack)]

\* doredis of redistributeFraction: cycles over the nine entries, skipping
\* those in avoid, adding one to an entry and taking one from f (both
\* uint8) until f reaches 0; f = 0 on entry wraps and makes 256 rounds.
\* The loop is written as its result: the entry of rank r among the
\* entries outside avoid receives one unit per full cycle plus one more
\* when r is below the remainder.
doredis(tf, f, avoid) ==
  LET n == IF f = 0 THEN 256 ELSE f
      m == 9 - Cardinality(avoid \cap (1..9))
      rank(i) == Cardinality({j \in 1..(i - 1) : j \notin avoid})
  IN [i \in 1..9 |->
        IF i \in avoid THEN tf[i]
        ELSE (tf[i] + (n \div m) + (IF rank(i) < n % m THEN 1 ELSE 0)) % 256]

\* redistributeFraction, then checkTunables(s.tunables)
redistributeFraction(g, f, avoid) ==
  LET tf2 == doredis(g.tunables.typeFractions, f, avoid)
      t2 == [g.tunables EXCEPT !.typeFractions = tf2]
  IN [g EXCEPT !.tunables = t2,
               !.panicked = @ \/ ~checkTunables(t2)]

\* precludeSelectedTypes: zero the entries in avoid, hand their total
\* (uint8) to the others.
precludeSelectedTypes(g, avoid) ==
  LET tf == g.tunables.typeFractions
      f == SeqSum([i \in 1..9 |-> IF i \in avoid THEN tf[i] ELSE 0]) % 256
      tf0 == [i \in 1..9 |-> IF i \in avoid THEN 0 ELSE tf[i]]
  IN redistributeFraction(
       [g EXCEPT !.tunables.typeFractions = tf0], f, avoid)

\* ------------------------------------------------------ the type builder

\* A value computed once and then used is written
\*   CHOOSE res \in {use(x) : x \in {value}} : TRUE
\* which reads "use(x) where x is value".

Draw(g, n) ==
  LET r == Intn(g.wr, n)
  IN [g |-> [g EXCEPT !.wr = r.w, !.panicked = @ \/ r.w.panicked],
      v |-> r.v]

\* intFlavor
intFlavor(g) ==
  LET d == Draw(g, 100)
  IN [g |-> d.g,
      v |-> IF d.v < g.tunables.unsignedRanges[1] THEN "uint" ELSE "int"]

\* intBits: the first width whose cumulative (uint8) range exceeds the
\* draw; falls through to intBitRanges[3] itself.
intBits(g) ==
  CHOOSE res \in
    {LET r == g.tunables.intBitRanges
         c1 == r[1] % 256
         c2 == (r[1] + r[2]) % 256
         c3 == (r[1] + r[2] + r[3]) % 256
         c4 == (r[1] + r[2] + r[3] + r[4]) % 256
     IN [g |-> d.g,
         v |-> IF d.v < c1 THEN 8
               ELSE IF d.v < c2 THEN 16
               ELSE IF d.v < c3 THEN 32
               ELSE IF d.v < c4 THEN 64
               ELSE r[4]] : d \in {Draw(g, 100)}} : TRUE

\* floatBits
floatBits(g) ==
  LET d == Draw(g, 100)
  IN [g |-> d.g,
      v |-> IF d.v < g.tunables.floatBitRanges[1] THEN 32 ELSE 64]

\* genAddrTaken
genAddrTaken(g) ==
  CHOOSE res \in
    {LET r == g.tunables.addrFractions
         c1 == r[1] % 256
         c2 == (r[1] + r[2]) % 256
         c3 == (r[1] + r[2] + r[3]) % 256
         c4 == (r[1] + r[2] + r[3] + r[4]) % 256
     IN [g |-> d.g,
         v |-> IF d.v < c1 THEN notAddrTaken
               ELSE IF d.v < c2 THEN addrTakenSimple
               ELSE IF d.v < c3 THEN addrTakenPassed
               ELSE IF d.v < c4 THEN addrTakenHeap
               ELSE notAddrTaken] : d \in {Draw(g, 100)}} : TRUE

\* tf converted into a cumulative sum (uint8)
RECURSIVE CumSum(_, _)
CumSum(tf, i) ==
  IF i = 0 THEN 0 ELSE (CumSum(tf, i - 1) + tf[i]) % 256

\* NewGenState: the part of genstate and funcdef that GenFunc threads
\* through type generation.  global is the package-level tunables variable.
NewGenState(wr, global, tstack, fidx, pidx) ==
  [wr |-> wr, global |-> global, tunables |-> global, tstack |-> tstack,
   panicked |-> FALSE, fidx |-> fidx, pidx |-> pidx,
   nstructs |-> 0, narrays |-> 0, nmaps |-> 0, ntypedefs |-> 0,
   mapkeytypes |-> <<>>, mapkeytmps |-> <<>>]

FName(g) == "F" \o ToString(g.fidx)

Panic(g) == [g EXCEPT !.panicked = TRUE]

RECURSIVE GenParm(_, _, _)

\* the field loop of the struct case of GenParm
GenFields(g, depth, n) ==
  ForRange(LAMBDA st, i :
             CHOOSE res \in
               {[g |-> r.g, ps |-> Append(st.ps, r.p)] :
                  r \in {GenParm(st.g, depth, FALSE)}} : TRUE,
           GPanicked, [g |-> g, ps |-> <<>>], 1, n)

\* the struct case of GenParm
GenStructParm(g, depth) ==
  CHOOSE res \in
    {LET sname == "Struct" \o FName(g) \o "S" \o ToString(g.nstructs)
     IN [g |-> fs.g,
         p |-> MkParm("struct", "struct", 0, sname,
                      checkerPkg(g.pidx) \o "." \o sname, fs.ps)] :
       fs \in {CHOOSE flds \in
                 {GenFields(d.g, depth + 1, d.v) :
                    d \in {Draw([g EXCEPT !.nstructs = @ + 1],
                                g.tunables.nStructFields \div (depth + 1))}}
                 : TRUE}} : TRUE

\* the draws of the array case with the element count drawn from one more
MutGenArrayDraws(g) ==
  CHOOSE res \in
    {CHOOSE res2 \in
       {[g |-> ds.g, nel |-> dn.v % 256,
         issl |-> ds.v < g.tunables.sliceFraction] :
          ds \in {Draw(dn.g, 100)}} : TRUE :
       dn \in {Draw([g EXCEPT !.narrays = @ + 1],
                    1 + g.tunables.nArrayElements)}} : TRUE

\* the array case of GenParm: the element count and the slice draw, then
\* the element type
GenArrayDraws(g) ==
  CHOOSE res \in
    {CHOOSE res2 \in
       {[g |-> ds.g, nel |-> dn.v % 256,
         issl |-> ds.v < g.tunables.sliceFraction] :
          ds \in {Draw(dn.g, 100)}} : TRUE :
       dn \in {Draw([g EXCEPT !.narrays = @ + 1],
                    g.tunables.nArrayElements)}} : TRUE

GenArrayParm(g, depth) ==
  CHOOSE res \in
    {LET aname == "Array" \o FName(g) \o "S" \o ToString(g.narrays)
                    \o "E" \o ToString(ad.nel)
     IN CHOOSE res2 \in
          {[g |-> el.g,
            p |-> [MkParm("array", "array", 0, aname,
                          checkerPkg(g.pidx) \o "." \o aname,
                          <<SetBlank(el.p, FALSE)>>)
                     EXCEPT !.nelements = ad.nel, !.slice = ad.issl]] :
             el \in {GenParm(ad.g, depth + 1, FALSE)}} : TRUE :
       ad \in {GenArrayDraws(g)}} : TRUE

\* GenMapKeyType
GenMapKeyType(g, depth) ==
  CHOOSE res \in
    {[g |-> popTunables(r.g), p |-> r.p] :
       r \in {CHOOSE r1 \in
                {GenParm(g2, depth + 1, FALSE) :
                   g2 \in {precludeSelectedTypes(
                             [pushTunables(g)
                                EXCEPT !.tunables.sliceFraction = 0],
                             {MapTfIdx, PointerTfIdx})}} : TRUE}} : TRUE

\* the map case of GenParm
GenMapParm(g, depth) ==
  LET ns == g.nmaps
      aname == "Map" \o FName(g) \o "M" \o ToString(ns)
      mkt == "Mk" \o ToString(g.fidx) \o "t" \o ToString(ns)
  IN CHOOSE res \in
       {CHOOSE res2 \in
          {[g |-> [val.g EXCEPT !.mapkeytypes[ns + 1] = SetBlank(mk.p, FALSE),
                                !.mapkeytmps[ns + 1] = mkt],
            p |-> [MkParm("map", "map", 0, aname,
                          checkerPkg(g.pidx) \o "." \o aname,
                          <<SetBlank(mk.p, FALSE), SetBlank(val.p, FALSE)>>)
                     EXCEPT !.keytmp = mkt, !.ns = ns]] :
             val \in {GenParm(mk.g, depth + 1, FALSE)}} : TRUE :
          mk \in {GenMapKeyType(
                    [g EXCEPT !.nmaps = @ + 1,
                              !.mapkeytypes = Append(@, NoParm),
                              !.mapkeytmps = Append(@, "")],
                    depth + 1)}} : TRUE

\* the numeric case of GenParm that marks no control
MutGenIntParm(g, mkctl) ==
  CHOOSE res \in
    {CHOOSE res2 \in
       {[g |-> bits.g, p |-> MkNumParm(fl.v, bits.v)] :
          bits \in {intBits(fl.g)}} : TRUE :
       fl \in {intFlavor(g)}} : TRUE

\* the numeric case of GenParm
GenIntParm(g, mkctl) ==
  CHOOSE res \in
    {CHOOSE res2 \in
       {[g |-> bits.g,
         p |-> [MkNumParm(fl.v, bits.v) EXCEPT !.ctl = mkctl]] :
          bits \in {intBits(fl.g)}} : TRUE :
       fl \in {intFlavor(g)}} : TRUE

GenFloatParm(g, tag, mul) ==
  LET bits == floatBits(g)
  IN [g |-> bits.g, p |-> MkNumParm(tag, bits.v * mul)]

\* the pointer case of GenParm
GenPointerParm(g, depth) ==
  CHOOSE res \in
    {[g |-> t.g, p |-> mkPointerParm(t.p)] :
       t \in {GenParm(g, depth + 1, FALSE)}} : TRUE

\* the draws GenParm makes before it picks the kind of type: blank,
\* address-taken, value-by-function-call, and the kind itself
ParmDraws(g1, depth) ==
  CHOOSE res \in
    {CHOOSE res2 \in
       {CHOOSE res3 \in
          {CHOOSE res4 \in
             {[g |-> d4.g, isblank |-> d1.v < g1.tunables.blankPerc,
               addr |-> d2.v,
               isGenValFunc |-> /\ g1.global.doFuncCallValues
                                /\ d3.v < g1.tunables.funcCallValFraction,
               which |-> d4.v] :
                d4 \in {Draw(d3.g, 100)}} : TRUE :
             d3 \in {IF g1.global.doFuncCallValues
                     THEN Draw(d2.g, 100)
                     ELSE [g |-> d2.g, v |-> 0]}} : TRUE :
          d2 \in {IF /\ depth = 0
                     /\ g1.global.takeAddress
                     /\ ~(d1.v < g1.tunables.blankPerc)
                  THEN genAddrTaken(d1.g)
                  ELSE [g |-> d1.g, v |-> notAddrTaken]}} : TRUE :
       d1 \in {Draw(g1, 100)}} : TRUE

\* the switch of GenParm over the kind drawn
ParmOfKind(gw, tf, which, depth, mkctl) ==
  CASE which < tf[StructTfIdx] -> GenStructParm(gw, depth)
    [] which < tf[ArrayTfIdx] -> GenArrayParm(gw, depth)
    [] which < tf[MapTfIdx] -> GenMapParm(gw, depth)
    [] which < tf[PointerTfIdx] -> GenPointerParm(gw, depth)
    [] which < tf[NumericTfIdx] -> GenIntParm(gw, mkctl)
    [] which < tf[FloatTfIdx] -> GenFloatParm(gw, "float", 1)
    [] which < tf[ComplexTfIdx] -> GenFloatParm(gw, "complex", 2)
    [] which < tf[ByteTfIdx] -> [g |-> gw, p |-> MkNumParm("byte", 8)]
    [] which < tf[StringTfIdx] -> [g |-> gw, p |-> MkStringParm]
    [] OTHER -> [g |-> gw, p |-> MkNumParm("uint", 8)]

\* GenParm with the tunables in force (g1) already settled.  A panic ends
\* the run: nothing further is generated.
GenParmIn(g0, g1, toodeep, depth, mkctl) ==
  IF g1.panicked THEN [g |-> Panic(g0), p |-> NoParm] ELSE
  CHOOSE res \in
    {IF dr.g.panicked THEN [g |-> Panic(g0), p |-> NoParm] ELSE
     CHOOSE res2 \in
       {[g |-> IF toodeep THEN popTunables(r.g) ELSE r.g,
         p |-> [(IF mkctl THEN r.p ELSE SetBlank(r.p, dr.isblank))
                  EXCEPT !.addr = dr.addr, !.genval = dr.isGenValFunc]] :
          r \in {LET tf == [i \in 1..9 |->
                              CumSum(g1.tunables.typeFractions, i)]
                 IN ParmOfKind(IF toodeep /\ dr.which < tf[PointerTfIdx]
                               THEN Panic(dr.g) ELSE dr.g,
                               tf, dr.which, depth, mkctl)}} : TRUE :
       dr \in {ParmDraws(g1, depth)}} : TRUE

\* GenParm with the depth test off by one
MutGenParm(g0, depth, mkctl) ==
  IF g0.panicked THEN [g |-> g0, p |-> NoParm]
  ELSE IF depth > g0.tunables.structDepth
  THEN CHOOSE res \in
         {GenParmIn(g0, g1, TRUE, depth, mkctl) :
            g1 \in {precludeSelectedTypes(
                      pushTunables(g0),
                      {StructTfIdx, ArrayTfIdx, MapTfIdx, PointerTfIdx})}}
         : TRUE
  ELSE GenParmIn(g0, g0, FALSE, depth, mkctl)

\* GenParm
GenParm(g0, depth, mkctl) ==
  IF g0.panicked THEN [g |-> g0, p |-> NoParm]
  ELSE IF depth >= g0.tunables.structDepth
  THEN CHOOSE res \in
         {GenParmIn(g0, g1, TRUE, depth, mkctl) :
            g1 \in {precludeSelectedTypes(
                      pushTunables(g0),
                      {StructTfIdx, ArrayTfIdx, MapTfIdx, PointerTfIdx})}}
         : TRUE
  ELSE GenParmIn(g0, g0, FALSE, depth, mkctl)

\* makeTypedefParm: the blank draw goes to rand.Intn directly, past the
\* wraprand counters.
makeTypedefParm(g, target) ==
  CHOOSE res \in
    {LET aname == "MyType" \o FName(g) \o "S" \o ToString(g.ntypedefs)
     IN [g |-> [g EXCEPT !.wr = r.w, !.ntypedefs = @ + 1],
         p |-> SetBlank(MkParm("typedef", "typedef", 0, aname,
                               checkerPkg(g.pidx) \o "." \o aname,
                               <<target>>),
                        r.v < g.global.blankPerc)] :
       r \in {RawIntn(g.wr, 100)}} : TRUE

IsControl(p) == p.kind = "num" /\ p.ctl

\* the parameter loop of GenFunc, asking for a control every time
MutGenParams(g, n, needControl, pTaken) ==
  ForRange(LAMBDA st, i :
             CHOOSE res \in
               {CHOOSE res2 \in
                  {[g |-> d.g,
                    ps |-> Append(st.ps,
                                  IF pTaken THEN r.p
                                  ELSE [r.p EXCEPT !.addr = notAddrTaken]),
                    dodefp |-> Append(st.dodefp, d.v),
                    needControl |-> st.needControl] :
                     d \in {Draw(r.g, 100)}} : TRUE :
                  r \in {GenParm(st.g, 0, st.needControl)}} : TRUE,
           GPanicked,
           [g |-> g, ps |-> <<>>, dodefp |-> <<>>,
            needControl |-> needControl], 1, n)

\* the parameter loop of GenFunc
GenParams(g, n, needControl, pTaken) ==
  ForRange(LAMBDA st, i :
             CHOOSE res \in
               {CHOOSE res2 \in
                  {[g |-> d.g,
                    ps |-> Append(st.ps,
                                  IF pTaken THEN r.p
                                  ELSE [r.p EXCEPT !.addr = notAddrTaken]),
                    dodefp |-> Append(st.dodefp, d.v),
                    needControl |-> st.needControl /\ ~IsControl(r.p)] :
                     d \in {Draw(r.g, 100)}} : TRUE :
                  r \in {GenParm(st.g, 0, st.needControl)}} : TRUE,
           GPanicked,
           [g |-> g, ps |-> <<>>, dodefp |-> <<>>,
            needControl |-> needControl], 1, n)

\* the return loop of GenFunc (GenReturn is GenParm without control)
GenReturns(g, n, rTaken) ==
  ForRange(LAMBDA st, i :
             CHOOSE res \in
               {[g |-> r.g,
                 ps |-> Append(st.ps,
                               IF rTaken THEN r.p
                               ELSE [r.p EXCEPT !.addr = notAddrTaken])] :
                  r \in {GenParm(st.g, 0, FALSE)}} : TRUE,
           GPanicked, [g |-> g, ps |-> <<>>], 1, n)

\* the receiver block of GenFunc
GenReceiver(g) ==
  CHOOSE res \in
    {makeTypedefParm(popTunables(t.g), SetBlank(t.p, FALSE)) :
       t \in {CHOOSE t1 \in
                {GenParm(g1, 0, FALSE) :
                   g1 \in {precludeSelectedTypes(pushTunables(g),
                                                 {PointerTfIdx})}} : TRUE}}
    : TRUE

\* the opening draws of GenFunc: parameter and return counts, recursion,
\* method
FuncDraws(g0) ==
  CHOOSE res \in
    {CHOOSE res2 \in
       {CHOOSE res3 \in
          {CHOOSE res4 \in
             {[g |-> dmeth.g, numParams |-> dnp.v, numReturns |-> dnr.v,
               recur |-> drec.v < g0.tunables.recurPerc,
               method |-> dmeth.v < g0.tunables.methodPerc] :
                dmeth \in {Draw(drec.g, 100)}} : TRUE :
             drec \in {Draw(dnr.g, 100)}} : TRUE :
          dnr \in {Draw(dnp.g, 1 + g0.tunables.nReturnRange)}} : TRUE :
       dnp \in {Draw(g0, 1 + g0.tunables.nParmRange)}} : TRUE

\* a GenFunc head that keeps recur under a blank receiver
MutFuncHead(g0) ==
  CHOOSE res \in
    {CHOOSE res2 \in
       {CHOOSE res3 \in
          {CHOOSE res4 \in
             {[g |-> dpt.g, numParams |-> fd.numParams,
               numReturns |-> fd.numReturns, method |-> fd.method,
               receiver |-> rc.p,
               recur |-> fd.recur,
               dodefc |-> ddefc.v,
               pTaken |-> dpt.v < dpt.g.tunables.takenFraction] :
                dpt \in {Draw(ddefc.g, 100)}} : TRUE :
             ddefc \in {Draw(rc.g, 100)}} : TRUE :
          rc \in {IF fd.method THEN GenReceiver(fd.g)
                  ELSE [g |-> fd.g, p |-> NoParm]}} : TRUE :
       fd \in {FuncDraws(g0)}} : TRUE

\* GenFunc up to the parameter loop: the receiver, the defer draw and the
\* address-taken draw for parameters
FuncHead(g0) ==
  CHOOSE res \in
    {CHOOSE res2 \in
       {CHOOSE res3 \in
          {CHOOSE res4 \in
             {[g |-> dpt.g, numParams |-> fd.numParams,
               numReturns |-> fd.numReturns, method |-> fd.method,
               receiver |-> rc.p,
               recur |-> fd.recur /\ ~(fd.method /\ rc.p.blank),
               dodefc |-> ddefc.v,
               pTaken |-> dpt.v < dpt.g.tunables.takenFraction] :
                dpt \in {Draw(ddefc.g, 100)}} : TRUE :
             ddefc \in {Draw(rc.g, 100)}} : TRUE :
          rc \in {IF fd.method THEN GenReceiver(fd.g)
                  ELSE [g |-> fd.g, p |-> NoParm]}} : TRUE :
       fd \in {FuncDraws(g0)}} : TRUE

\* GenFunc from the return loop on
FuncTail(g0, fh, ps) ==
  CHOOSE res \in
    {CHOOSE res2 \in
       {CHOOSE res3 \in
          {IF dspw.g.panicked THEN [panicked |-> TRUE] ELSE
           [idx |-> g0.fidx, receiver |-> fh.receiver, params |-> ps.ps,
            returns |-> rs.ps, values |-> <<>>, dodefc |-> fh.dodefc,
            dodefp |-> ps.dodefp,
            rstack |-> IF Pow2(dspw.v) < 4 THEN 4 ELSE Pow2(dspw.v),
            recur |-> fh.recur /\ ~ps.needControl,
            method |-> fh.method,
            mapkeytypes |-> dspw.g.mapkeytypes,
            mapkeytmps |-> dspw.g.mapkeytmps,
            mapkeyts |-> IF dspw.g.nmaps > 0
                         THEN "MapKeysF" \o ToString(g0.fidx) ELSE "",
            tunables |-> dspw.g.tunables, tstack |-> dspw.g.tstack,
            panicked |-> FALSE] :
             dspw \in {Draw(rs.g, 11)}} : TRUE :
          rs \in {GenReturns(drt.g, fh.numReturns,
                             drt.v < drt.g.tunables.takenFraction)}} : TRUE :
       drt \in {Draw(ps.g, 100)}} : TRUE

\* GenFunc
GenFunc(g0) ==
  CHOOSE res \in
    {CHOOSE res2 \in
       {FuncTail(g0, fh, ps) :
          ps \in {GenParams(fh.g, fh.numParams, fh.recur, fh.pTaken)}} : TRUE :
       fh \in {FuncHead(g0)}} : TRUE

\* ------------------------------------------------------ helper registry

\* The five helper maps (tag -> name) are sets of [tag, name] records; the
\* five "new" lists are sequences of the same records (funcdesc).
Lookup(m, tag) == (CHOOSE r \in m : r.tag = tag).name

HasTag(m, tag) == \E r \in m : r.tag = tag

\* a delete that leaves the map as it was
MutDelete(m, tag) == m

\* delete(m, tag)
Delete(m, tag) == {r \in m : r.tag # tag}

\* a helper body that numbers the helper after the list of new helpers
MutGenHelper(e, mapfld, newfld, prefix, tag, p, payload) ==
  IF HasTag(e[mapfld], tag)
  THEN [e |-> e, name |-> Lookup(e[mapfld], tag)]
  ELSE LET nm == prefix \o ToString(Len(e[newfld]))
           fd == [tag |-> tag, name |-> nm, p |-> p, payload |-> payload]
       IN [e |-> [e EXCEPT ![newfld] = Append(@, fd),
                           ![mapfld] = @ \cup {[tag |-> tag, name |-> nm]}],
           name |-> nm]

\* the body shared by genGlobVar, genParamDerefFunc, genAssignFunc and
\* genAllocFunc: look the tag up; when absent, name the helper after the
\* current size of the map, append it to the new list and record it.
genHelper(e, mapfld, newfld, prefix, tag, p, payload) ==
  IF HasTag(e[mapfld], tag)
  THEN [e |-> e, name |-> Lookup(e[mapfld], tag)]
  ELSE LET nm == prefix \o ToString(Cardinality(e[mapfld]))
           fd == [tag |-> tag, name |-> nm, p |-> p, payload |-> payload]
       IN [e |-> [e EXCEPT ![newfld] = Append(@, fd),
                           ![mapfld] = @ \cup {[tag |-> tag, name |-> nm]}],
           name |-> nm]

\* pointerparm.Declare of *p with the given prefix, checker view
PtrTag(prefix, p) == prefix \o " *" \o p.tn

genGlobVar(e, p) ==
  genHelper(e, "globVars", "newGlobVars", "gvar_", PtrTag("gv", p), p, "")

genParamDerefFunc(e, p) ==
  genHelper(e, "derefFuncs", "newDerefFuncs", "deref_", PtrTag("x", p),
            p, "")

genAssignFunc(e, p) ==
  genHelper(e, "assignFuncs", "newAssignFuncs", "retassign_",
            PtrTag("x", p), p, "")

genAllocFunc(e, p) ==
  genHelper(e, "allocFuncs", "newAllocFuncs", "New_", PtrTag("x", p), p,
            "")

\* --------------------------------------------------------- type queries

RECURSIVE NumElements(_)
RECURSIVE SumElements(_)
SumElements(ps) ==
  IF ps = <<>> THEN 0 ELSE NumElements(Head(ps)) + SumElements(Tail(ps))

\* NumElements of each parm variant
NumElements(p) ==
  CASE p.kind = "struct" -> SumElements(p.kids)
    [] p.kind = "array" -> NumElements(p.kids[1]) * p.nelements
    [] p.kind = "typedef" -> NumElements(p.kids[1])
    [] OTHER -> 1

\* HasPointer of each parm variant
RECURSIVE HasPointer(_)
HasPointer(p) ==
  CASE p.kind = "pointer" -> TRUE
    [] p.kind = "map" -> TRUE
    [] p.kind = "struct" -> \E i \in DOMAIN p.kids : HasPointer(p.kids[i])
    [] p.kind = "array" -> HasPointer(p.kids[1])
    [] p.kind = "typedef" -> HasPointer(p.kids[1])
    [] OTHER -> FALSE

\* genDeref
RECURSIVE genDeref(_)
genDeref(p) ==
  IF p.kind = "pointer"
  THEN LET r == genDeref(p.kids[1]) IN [p |-> r.p, star |-> "*" \o r.star]
  ELSE [p |-> p, star |-> ""]

\* checkableElements
RECURSIVE checkableElements(_)
RECURSIVE SumCheckable(_)
SumCheckable(ps) ==
  IF ps = <<>> THEN 0
  ELSE checkableElements(Head(ps)) + SumCheckable(Tail(ps))

checkableElements(p) ==
  IF p.blank THEN 0
  ELSE IF p.kind = "struct" THEN SumCheckable(p.kids)
  ELSE IF p.kind = "array"
       THEN IF p.nelements = 0 THEN 0
            ELSE p.nelements * checkableElements(p.kids[1])
  ELSE 1

\* GenElemRef of each parm variant: the access path of leaf elidx under
\* path, and the leaf's type.
RECURSIVE GenElemRef(_, _, _)
RECURSIVE StructElemRef(_, _, _, _, _)
StructElemRef(p, fi, ct, elidx, path) ==
  IF fi > Len(p.kids) THEN [path |-> "", p |-> p]
  ELSE LET f == p.kids[fi]
           fne == NumElements(f)
           fpath == IF path = "_" \/ p.blank \/ f.blank THEN "_"
                    ELSE path \o ".F" \o ToString(fi - 1)
       IN IF fne = 0 THEN StructElemRef(p, fi + 1, ct, elidx, path)
          ELSE IF fne = 1 /\ elidx = ct THEN [path |-> fpath, p |-> f]
          ELSE IF fne > 1 /\ elidx >= ct /\ elidx < ct + fne
               THEN GenElemRef(f, elidx - ct, fpath)
          ELSE StructElemRef(p, fi + 1, ct + fne, elidx, path)

GenElemRef(p, elidx, path) ==
  CASE p.kind = "struct" -> StructElemRef(p, 1, 0, elidx, path)
    [] p.kind = "array" ->
         LET ene == NumElements(p.kids[1])
             slot == IF ene = 0 THEN 0 ELSE elidx \div ene
             spath == path \o "[" \o ToString(slot) \o "]"
             epath == IF path = "_" \/ p.blank THEN "_" ELSE spath
             ppath == IF p.blank THEN "_" ELSE spath
         IN IF ene = 0 THEN [path |-> "", p |-> p]
            ELSE IF ene = 1 THEN [path |-> epath, p |-> p.kids[1]]
            ELSE GenElemRef(p.kids[1], elidx - slot * ene, ppath)
    [] p.kind = "typedef" ->
         LET r == GenElemRef(p.kids[1], elidx, path)
         IN IF p.kids[1].kind \in {"array", "struct"} THEN r
            ELSE [path |-> r.path, p |-> p]
    [] OTHER -> [path |-> path, p |-> p]

\* ------------------------------------------------------ value generation

\* len(letters)
NumLetters == 32

\* the emitter's view of genstate: the stream, the helper registry, the
\* output buffer b with the helper names its code mentions (refs), the log
\* of primitive literals with the value counter each was produced at, and
\* the internal-error counter.
NewEmitState(wr, reg, order, tun, pkidx, errs) ==
  [wr |-> wr, panicked |-> FALSE, pkidx |-> pkidx, tunables |-> tun,
   derefFuncs |-> reg.derefFuncs, assignFuncs |-> reg.assignFuncs,
   allocFuncs |-> reg.allocFuncs, globVars |-> reg.globVars,
   genvalFuncs |-> reg.genvalFuncs,
   newDerefFuncs |-> reg.newDerefFuncs,
   newAssignFuncs |-> reg.newAssignFuncs,
   newAllocFuncs |-> reg.newAllocFuncs,
   newGlobVars |-> reg.newGlobVars,
   newGenvalFuncs |-> reg.newGenvalFuncs,
   b |-> <<>>, refs |-> {}, defs |-> <<>>, lits |-> <<>>, errs |-> errs,
   maporder |-> order]

EDraw(e, n) ==
  LET r == Intn(e.wr, n)
  IN [e |-> [e EXCEPT !.wr = r.w, !.panicked = @ \/ r.w.panicked],
      v |-> r.v]

Lit(e, str, value) ==
  [e |-> [e EXCEPT !.lits = Append(@, <<value, str>>)],
   str |-> str, value |-> value + 1, refs |-> {}]

Signed(v, value) == IF value % 2 # 0 THEN 0 - v ELSE v

\* numparm.genRandNum, drawing from the wrapped stream
genRandNum(e0, tag, width, value) ==
  CHOOSE res \in
    {LET which == dw.v
         tn == NumTypeName(tag, width)
     IN CASE tag = "int" ->
               IF which < 3 THEN Lit(dw.e, tn \o "(max)", value)
               ELSE IF which < 5 THEN Lit(dw.e, tn \o "(min)", value)
               ELSE LET r == IntnShift(dw.e.wr, width - 2)
                    IN Lit([dw.e EXCEPT !.wr = r.w],
                           tn \o "(" \o ToString(Signed(r.v, value)) \o ")",
                           value)
          [] tag \in {"uint", "byte"} ->
               LET r == IntnShift(dw.e.wr, width - 2)
               IN Lit([dw.e EXCEPT !.wr = r.w],
                      tn \o "(" \o ToString(r.v) \o ")", value)
          [] tag = "float" /\ width = 32 ->
               LET r == Float32(dw.e.wr)
               IN Lit([dw.e EXCEPT !.wr = r.w],
                      tn \o "(" \o ToString(Signed(r.v, value)) \o ")",
                      value)
          [] tag = "float" /\ width = 64 ->
               LET r == NormFloat64(dw.e.wr)
               IN Lit([dw.e EXCEPT !.wr = r.w],
                      tn \o "(" \o ToString(r.v) \o ")", value)
          [] OTHER -> [e |-> [dw.e EXCEPT !.panicked = TRUE], str |-> "",
                       value |-> value, refs |-> {}] :
       dw \in {EDraw(e0, 100)}} : TRUE

\* the complex case of genRandNum: two component draws
genRandComplex(e0, width, value) ==
  CHOOSE res \in
    {IF f1.e.panicked THEN f1 ELSE
     CHOOSE res2 \in
       {[e |-> f2.e, str |-> "complex(" \o f1.str \o "," \o f2.str \o ")",
         value |-> f2.value, refs |-> {}] :
          f2 \in {genRandNum(f1.e, "float", width \div 2, f1.value)}}
       : TRUE :
       f1 \in {CHOOSE f \in
                 {genRandNum(dw.e, "float", width \div 2, value) :
                    dw \in {EDraw(e0, 100)}} : TRUE}} : TRUE

\* stringparm.GenValue: both draws go to rand.Intn directly
StringGenValue(e0, value) ==
  LET ns == NumLetters - 9
      d1 == RawIntn(e0.wr, 8)
      d2 == RawIntn(d1.w, ns)
      en == Min(d2.v + d1.v, ns)
  IN Lit([e0 EXCEPT !.wr = d2.w],
         "letters[" \o ToString(d2.v) \o ":" \o ToString(en) \o "]",
         value)

Com(i) == IF i > 1 THEN ", " ELSE ""

\* GenValue of each parm variant
RECURSIVE PGenValue(_, _, _, _)

\* the field loop of structparm.GenValue: every field's value is
\* generated; a blank field's text is dropped.  nbfi counts the fields
\* written so far, plus one.
FieldsGenValue(e, p, value, caller) ==
  ForRange(LAMBDA st, fi :
             CHOOSE res \in
               {IF p.kids[fi].blank
                THEN [st EXCEPT !.e = r.e, !.value = r.value]
                ELSE [e |-> r.e,
                      str |-> st.str \o Com(st.nbfi) \o "F"
                                \o ToString(fi - 1) \o ": " \o r.str,
                      value |-> r.value, refs |-> st.refs \cup r.refs,
                      nbfi |-> st.nbfi + 1] :
                  r \in {PGenValue(st.e, p.kids[fi], st.value, caller)}}
               : TRUE,
           EPanicked,
           [e |-> e, str |-> "", value |-> value, refs |-> {}, nbfi |-> 1],
           1, Len(p.kids))

\* the element loop of arrayparm.GenValue
ElemsGenValue(e, p, value, caller) ==
  ForRange(LAMBDA st, i :
             CHOOSE res \in
               {[e |-> r.e, str |-> st.str \o Com(i) \o r.str,
                 value |-> r.value, refs |-> st.refs \cup r.refs] :
                  r \in {PGenValue(st.e, p.kids[1], st.value, caller)}}
               : TRUE,
           EPanicked,
           [e |-> e, str |-> "", value |-> value, refs |-> {}],
           1, p.nelements)

\* pointerparm.GenValue
PointerGenValue(e, p, value, caller) ==
  CHOOSE res \in
    {IF r.e.panicked THEN r ELSE
     LET h == genAllocFunc(r.e, p.kids[1])
         pref == IF caller THEN checkerPkg(e.pkidx) \o "." ELSE ""
     IN [e |-> h.e,
         str |-> pref \o h.name \o "(" \o r.str \o ")",
         value |-> r.value, refs |-> r.refs \cup {h.name}] :
       r \in {PGenValue(e, p.kids[1], value, caller)}} : TRUE

PGenValue(e, p, value, caller) ==
  LET n == IF caller THEN p.qn ELSE p.tn
  IN CASE p.kind = "num" /\ p.tag = "complex" ->
            genRandComplex(e, p.widthInBits, value)
       [] p.kind = "num" /\ p.tag # "complex" ->
            genRandNum(e, p.tag, p.widthInBits, value)
       [] p.kind = "string" -> StringGenValue(e, value)
       [] p.kind = "pointer" -> PointerGenValue(e, p, value, caller)
       [] p.kind = "struct" ->
            [FieldsGenValue(e, p, value, caller)
               EXCEPT !.str = n \o "{" \o @ \o "}"]
       [] p.kind = "array" ->
            [ElemsGenValue(e, p, value, caller)
               EXCEPT !.str = n \o "{" \o @ \o "}"]
       [] p.kind = "map" ->
            [PGenValue(e, p.kids[2], value, caller)
               EXCEPT !.str = n \o "{mkt." \o p.keytmp \o ": " \o @ \o "}"]
       [] p.kind = "typedef" ->
            [PGenValue(e, p.kids[1], value, caller)
               EXCEPT !.str = n \o "(" \o @ \o ")"]
       [] OTHER -> [e |-> [e EXCEPT !.panicked = TRUE], str |-> "",
                    value |-> value, refs |-> {}]

\* genstate.GenValue: the parm's value, replaced in the checker by a call
\* of a genval helper when the parm is flagged for it.  The tag is the
\* declaration followed by a hash of the literal, the declaration and the
\* map-key holder; the hash is kept as the text it is taken of.
GenValue(e, f, p, value, caller) ==
  CHOOSE res \in
    {IF r.e.panicked \/ caller \/ ~p.genval
        \/ ~e.tunables.doFuncCallValues
     THEN r
     ELSE LET meth == IF f.mapkeyts # "" THEN "mkt." ELSE ""
              decl == "x " \o p.tn
              tag == decl \o "#" \o r.str \o "#" \o decl \o "#" \o f.mapkeyts
              h == genHelper(r.e, "genvalFuncs", "newGenvalFuncs",
                             "genval_", tag, p, r.str)
          IN [e |-> h.e, str |-> meth \o h.name \o "()",
              value |-> r.value, refs |-> r.refs \cup {h.name}] :
       r \in {PGenValue(e, p, value, caller)}} : TRUE

\* ------------------------------------------------------------ emitters

\* b.WriteString(line), noting the helper names the line mentions
W(e, line, refs) == [e EXCEPT !.b = Append(@, line), !.refs = @ \cup refs]

\* Declare of each parm variant
Declare(p, prefix, suffix, caller) ==
  prefix \o " " \o (IF caller THEN p.qn ELSE p.tn) \o suffix

utilsPkg(e) == "genUtils"

\* emitMapKeyTmps
MapKeyTmpsLoop(e, f, value, caller) ==
  ForRange(LAMBDA st, i :
             CHOOSE res \in
               {[e |-> W(W(r.e, "  " \o f.mapkeytmps[i] \o " := " \o r.str,
                           r.refs),
                         "  mkt." \o f.mapkeytmps[i] \o " = "
                           \o f.mapkeytmps[i], {}),
                 value |-> r.value] :
                  r \in {GenValue(st.e, f, f.mapkeytypes[i], st.value,
                                  caller)}} : TRUE,
           EPanicked, [e |-> e, value |-> value], 1, Len(f.mapkeytypes))

\* emitMapKeyTmps as it would be if the checker did not generate the
\* map-key temporaries
MutEmitMapKeyTmps(e, f, value, caller) ==
  IF f.mapkeyts = "" \/ ~caller
  THEN [e |-> e, value |-> value]
  ELSE MapKeyTmpsLoop(W(e, "  var mkt " \o checkerPkg(e.pkidx) \o "."
                             \o f.mapkeyts, {}),
                      f, value, caller)

emitMapKeyTmps(e, f, value, caller) ==
  IF f.mapkeyts = ""
  THEN [e |-> e, value |-> value]
  ELSE LET cp == IF caller THEN checkerPkg(e.pkidx) \o "." ELSE ""
       IN MapKeyTmpsLoop(W(e, "  var mkt " \o cp \o f.mapkeyts, {}),
                         f, value, caller)

\* rname := <value>
VarAssignWhole(e, f, r, rname, value, caller) ==
  CHOOSE res \in
    {[e |-> W(v.e, "  " \o rname \o " := " \o v.str, v.refs),
      value |-> v.value] :
       v \in {GenValue(e, f, r, value, caller)}} : TRUE

\* rname := make(map); rname[key] = <value>
VarAssignMap(e, f, r, rname, value, caller) ==
  CHOOSE res \in
    {[e |-> W(v.e, "  " \o rname \o "[mkt." \o r.keytmp \o "] = " \o v.str,
              v.refs),
      value |-> v.value] :
       v \in {GenValue(W(e, Declare(r, "  " \o rname \o " := make(", ")",
                                    caller), {}),
                       f, r.kids[2], value, caller)}} : TRUE

\* emitVarAssign without its draw
MutEmitVarAssign(e0, f, r, rname, value, caller) ==
  VarAssignWhole(e0, f, r, rname, value, caller)

\* emitVarAssign
emitVarAssign(e0, f, r, rname, value, caller) ==
  CHOOSE res \in
    {IF r.kind = "map" /\ d.v < 50
     THEN VarAssignMap(d.e, f, r, rname, value, caller)
     ELSE VarAssignWhole(d.e, f, r, rname, value, caller) :
       d \in {EDraw(e0, 100)}} : TRUE

\* the return-constant loop of emitCaller and emitChecker
ReturnConstants(e, f, rc, value, caller) ==
  ForRange(LAMBDA st, ri :
             emitVarAssign(st.e, f, f.returns[ri], rc \o ToString(ri - 1),
                           st.value, caller),
           EPanicked, [e |-> e, value |-> value], 1, Len(f.returns))

\* the recursion counter: the value the caller gives the control
\* parameter, what a recursive call takes off it, the value the guard
\* stops at
ControlStart == 10

ControlStep == 1

ControlStop == 0

\* the param-constant loop of emitCaller; values collects f.values
ParamConstants(e, f, value) ==
  ForRange(LAMBDA st, pi :
             CHOOSE res \in
               {[e |-> r.e, value |-> r.value,
                 values |-> Append(st.values, r.value)] :
                  r \in {IF IsControl(f.params[pi])
                         THEN [e |-> W(EDraw(st.e, 100).e,
                                       Declare(f.params[pi],
                                               "  var p" \o ToString(pi - 1)
                                                 \o " ",
                                               " = " \o ToString(ControlStart),
                                               TRUE), {}),
                               value |-> st.value]
                         ELSE emitVarAssign(st.e, f, f.params[pi],
                                            "p" \o ToString(pi - 1),
                                            st.value, TRUE)}} : TRUE,
           EPanicked, [e |-> e, value |-> value, values |-> <<>>],
           1, Len(f.params))

\* p0, p1, ...
RECURSIVE ArgList(_, _, _)
ArgList(pre, i, n) ==
  IF i >= n THEN ""
  ELSE Com(i + 1) \o pre \o ToString(i) \o ArgList(pre, i + 1, n)

\* complexityMeasure
complexityMeasure(f) ==
  (IF f.method THEN NumElements(f.receiver) ELSE 0)
    + SumElements(f.params) + SumElements(f.returns)

\* eqFuncRef
eqFuncRef(e, f, t, caller) ==
  (IF f.mapkeyts # "" THEN "mkt."
   ELSE IF caller THEN checkerPkg(e.pkidx) \o "." ELSE "")
    \o "Equal" \o t.tn

\* the return-check loop of emitCaller, for the value named rv
ReturnChecks(e, f, rv, what) ==
  ForRange(LAMBDA st, ri :
             LET d == genDeref(f.returns[ri])
                 n == ToString(ri - 1)
                 pfc == IF d.star # ""
                        THEN utilsPkg(st) \o ".ParamFailCount == 0 && "
                        ELSE ""
                 cond == IF HasPointer(d.p)
                         THEN "!" \o eqFuncRef(st, f, d.p, TRUE) \o "("
                                \o d.star \o rv \o n \o ", " \o d.star
                                \o "c" \o n \o ")"
                         ELSE d.star \o rv \o n \o " != " \o d.star
                                \o "c" \o n
             IN IF NumElements(d.p) = 0
                THEN W(st, "  _, _ = " \o rv \o n \o ", c" \o n, {})
                ELSE W(W(st, "  if " \o pfc \o cond \o " {", {}),
                       "    NoteFailure(" \o ToString(complexityMeasure(f))
                         \o ", " \o ToString(st.pkidx) \o ", "
                         \o ToString(f.idx) \o ", " \o what \o ", "
                         \o n \o ") }", {}),
           Panicked, e, 1, Len(f.returns))

\* the receiver block of emitCaller
CallerReceiver(pc, f) ==
  IF ~f.method THEN pc ELSE
  CHOOSE res \in
    {[e |-> W(v.e, "  rcvr = " \o v.str, v.refs),
      value |-> v.value,
      values |-> Append(pc.values, v.value)] :
       v \in {GenValue(W(pc.e, Declare(f.receiver, "  var rcvr", "", TRUE),
                         {}),
                       f, f.receiver, pc.value, TRUE)}} : TRUE

\* the constants of emitCaller: map keys, expected returns, parameters,
\* receiver
CallerConstants(e1, f) ==
  CHOOSE res \in
    {CHOOSE res2 \in
       {CHOOSE res3 \in
          {CallerReceiver(pc, f) :
             pc \in {ParamConstants(rc.e, f, rc.value)}} : TRUE :
          rc \in {ReturnConstants(mk.e, f, "c", mk.value, TRUE)}} : TRUE :
       mk \in {emitMapKeyTmps(e1, f, 1, TRUE)}} : TRUE

\* the calls of emitCaller and the checks of what they return
CallerCalls(e0, f, e) ==
  LET pref == IF f.method THEN "rcvr" ELSE checkerPkg(e0.pkidx)
      lhs == IF Len(f.returns) > 0
             THEN ArgList("r", 0, Len(f.returns)) \o " := " ELSE ""
      e3 == W(W(e, "  if mode == normal {", {}),
              "  " \o lhs \o pref \o ".Test" \o ToString(f.idx) \o "("
                \o ArgList("p", 0, Len(f.params)) \o ")", {})
      e4 == ReturnChecks(e3, f, "r", "return")
      e5 == IF e0.tunables.doReflectCall
            THEN ReturnChecks(
                   W(W(e4, "  } else {", {}),
                     "  rc.Call(" \o pref \o ".Test" \o ToString(f.idx)
                        \o ", " \o ArgList("p", 0, Len(f.params)) \o ")",
                     {}),
                   f, "rr", "reflect return")
            ELSE e4
  IN W(W(e5, "  }", {}), "  " \o utilsPkg(e0) \o ".EndFcn() }", {})

\* emitCaller: the caller text in e.b, f.values in values
emitCaller(e0, f) ==
  CHOOSE res \in
    {IF rv.e.panicked
     THEN [e |-> Panic(e0), values |-> <<>>, value |-> 0]
     ELSE [e |-> CallerCalls(e0, f, rv.e),
           values |-> rv.values, value |-> rv.value] :
       rv \in {CallerConstants(
                 W(W(e0, "func Caller" \o ToString(f.idx)
                           \o "(mode string) {", {}),
                   "  " \o utilsPkg(e0) \o ".BeginFcn()", {}),
                 f)}} : TRUE

\* genParamRef
genParamRef(e, p, idx) ==
  CASE p.addr = notAddrTaken ->
         [e |-> e, str |-> "p" \o ToString(idx), refs |-> {}]
    [] p.addr \in {addrTakenSimple, addrTakenHeap} ->
         [e |-> e, str |-> "(*ap" \o ToString(idx) \o ")", refs |-> {}]
    [] p.addr = addrTakenPassed ->
         LET h == genParamDerefFunc(e, p)
         IN [e |-> h.e, str |-> h.name \o "(ap" \o ToString(idx) \o ")",
             refs |-> {h.name}]
    [] OTHER -> [e |-> [e EXCEPT !.panicked = TRUE], str |-> "",
                 refs |-> {}]

\* genReturnAssign
genReturnAssign(e, r, idx, val) ==
  CASE r.addr = notAddrTaken ->
         W(e, "  r" \o ToString(idx) \o " = " \o val, {})
    [] r.addr \in {addrTakenSimple, addrTakenHeap} ->
         W(e, "  (*ar" \o ToString(idx) \o ") = " \o val, {})
    [] r.addr = addrTakenPassed ->
         LET h == genAssignFunc(e, r)
         IN W(h.e, "  " \o h.name \o "(ar" \o ToString(idx) \o ", " \o val
                     \o ")", {h.name})
    [] OTHER -> [e EXCEPT !.panicked = TRUE]

\* emitParamElemCheck
emitParamElemCheck(e, f, p, pvar, refs, cvar, paramidx, elemidx) ==
  LET d == genDeref(p)
      cond == IF HasPointer(d.p)
              THEN "!" \o eqFuncRef(e, f, d.p, FALSE) \o "(" \o d.star
                     \o pvar \o ", " \o d.star \o cvar \o ")"
              ELSE d.star \o pvar \o " != " \o d.star \o cvar
  IN IF NumElements(d.p) = 0 THEN e
     ELSE W(W(e, "  if " \o cond \o " {", refs),
            "    NoteFailureElem(" \o ToString(complexityMeasure(f)) \o ", "
              \o ToString(e.pkidx) \o ", " \o ToString(f.idx) \o ", parm, "
              \o ToString(paramidx) \o ", " \o ToString(elemidx)
              \o "); return }", {})

\* the argument loop of emitRecursiveCall with the control passed on as
\* it is
MutRecursiveArgs(e, f) ==
  ForRange(LAMBDA st, pi :
             LET p == f.params[pi]
                 r == IF IsControl(p) \/ ~p.blank
                      THEN genParamRef(st.e, p, pi - 1)
                      ELSE [e |-> st.e, str |-> "brc" \o ToString(pi - 1),
                            refs |-> {}]
             IN [e |-> r.e,
                 str |-> st.str \o Com(pi) \o " " \o r.str,
                 refs |-> st.refs \cup r.refs],
           EPanicked, [e |-> e, str |-> "", refs |-> {}], 1, Len(f.params))

\* the argument loop of emitRecursiveCall
RecursiveArgs(e, f) ==
  ForRange(LAMBDA st, pi :
             LET p == f.params[pi]
                 r == IF IsControl(p) \/ ~p.blank
                      THEN genParamRef(st.e, p, pi - 1)
                      ELSE [e |-> st.e, str |-> "brc" \o ToString(pi - 1),
                            refs |-> {}]
             IN [e |-> r.e,
                 str |-> st.str \o Com(pi) \o " " \o r.str
                           \o (IF IsControl(p)
                               THEN "-" \o ToString(ControlStep) ELSE ""),
                 refs |-> st.refs \cup r.refs],
           EPanicked, [e |-> e, str |-> "", refs |-> {}], 1, Len(f.params))

\* emitRecursiveCall
emitRecursiveCall(e, f) ==
  [RecursiveArgs(e, f)
     EXCEPT !.str = (IF f.method THEN " rcvr." ELSE " ") \o "Test"
                      \o ToString(f.idx) \o "(" \o @ \o ")"]

\* the genReturnAssign loop of emitReturn
ReturnAssigns(e, f, t) ==
  ForRange(LAMBDA st, ri :
             genReturnAssign(st, f.returns[ri], ri - 1,
                             "rc" \o t \o ToString(ri - 1)),
           Panicked, e, 1, Len(f.returns))

\* emitReturn
emitReturn(e, f, doRecursiveCall) ==
  LET indirectReturn ==
        \E ri \in DOMAIN f.returns : f.returns[ri].addr # notAddrTaken
      t == IF doRecursiveCall THEN "t" ELSE ""
      nr == Len(f.returns)
  IN IF ~doRecursiveCall
     THEN IF indirectReturn
          THEN W(ReturnAssigns(e, f, t), "  return", {})
          ELSE W(e, "  return " \o ArgList("rc" \o t, 0, nr), {})
     ELSE CHOOSE res \in
            {IF indirectReturn
             THEN W(ReturnAssigns(
                      W(rcall.e, "  " \o ArgList("rct", 0, nr) \o " := "
                                   \o rcall.str, rcall.refs),
                      f, t),
                    "  return", {})
             ELSE IF nr = 0
                  THEN W(W(rcall.e, rcall.str, rcall.refs), "  return", {})
                  ELSE W(rcall.e, "  return " \o rcall.str, rcall.refs) :
               rcall \in {emitRecursiveCall(e, f)}} : TRUE

\* the reference to parameter pi (0-based) and its leaf i
LeafRef(e, p, pi, i) ==
  LET ref == genParamRef(e, p, pi)
      el == GenElemRef(p, i, ref.str)
  IN [e |-> ref.e, refs |-> ref.refs, path |-> el.path, p |-> el.p]

\* the leaf loop of emitParamChecks for parameter pi (0-based)
ParamLeaves(e, f, p, pi, value) ==
  ForRange(LAMBDA st, i :
             CHOOSE res \in
               {CHOOSE res2 \in
                  {LET cvar == "p" \o ToString(pi) \o "f" \o ToString(i)
                                 \o "c"
                   IN [e |-> IF el.path \in {"", "_"}
                                  \/ checkableElements(p) = 0
                             THEN W(v.e, "  // skip", {})
                             ELSE IF NumElements(genDeref(el.p).p) = 0
                             THEN v.e
                             ELSE emitParamElemCheck(
                                    W(v.e, "  " \o cvar \o " := " \o v.str,
                                      v.refs),
                                    f, el.p, el.path, el.refs, cvar, pi, i),
                       value |-> v.value] :
                     v \in {GenValue(el.e, f, el.p, st.value, FALSE)}}
                  : TRUE :
                  el \in {LeafRef(st.e, p, pi, i)}} : TRUE,
           EPanicked, [e |-> e, value |-> value], 0, NumElements(p) - 1)

\* the receiver leaf loop of emitParamChecks
ReceiverLeaves(e, f, value) ==
  ForRange(LAMBDA st, i :
             CHOOSE res \in
               {LET el == GenElemRef(f.receiver, i, "rcvr")
                    cvar == "rcvrf" \o ToString(i) \o "c"
                IN [e |-> IF el.path \in {"", "_"} \/ f.receiver.blank
                          THEN v.e
                          ELSE IF NumElements(genDeref(el.p).p) = 0 THEN v.e
                          ELSE emitParamElemCheck(
                                 W(v.e, "  " \o cvar \o " := " \o v.str,
                                   v.refs),
                                 f, el.p, el.path, {}, cvar, 0 - 1, i),
                    value |-> v.value] :
                  v \in {GenValue(st.e, f,
                                  GenElemRef(f.receiver, i, "rcvr").p,
                                  st.value, FALSE)}} : TRUE,
           EPanicked, [e |-> e, value |-> value],
           0, NumElements(f.receiver) - 1)

\* the body of the parameter loop as it would be if a blank parameter
\* consumed no values in the checker
MutParamCheck(e, f, p, pi, value) ==
  IF IsControl(p) \/ p.blank
  THEN [e |-> e, value |-> value]
  ELSE ParamLeaves(e, f, p, pi, value)

\* the body of the parameter loop of emitParamChecks, after the draw
ParamCheck(e, f, p, pi, value) ==
  IF IsControl(p)
  THEN LET ref == genParamRef(e, p, pi)
       IN [e |-> W(emitReturn(W(ref.e, "  if " \o ref.str \o " == "
                                         \o ToString(ControlStop) \o " {",
                                ref.refs), f, FALSE), "  }", {}),
           value |-> value]
  ELSE IF p.blank
  THEN CHOOSE res \in
         {[e |-> W(v.e, (IF f.recur THEN "  brc" \o ToString(pi) \o " := "
                         ELSE "  _ = ") \o v.str, v.refs),
           value |-> v.value] :
            v \in {GenValue(e, f, p, value, FALSE)}} : TRUE
  ELSE ParamLeaves(e, f, p, pi, value)

\* the parameter loop of emitParamChecks; cvals collects the value counter
\* after each parameter, errs counts the mismatches with f.values
ParamChecksLoop(e, f, value) ==
  ForRange(LAMBDA st, pi :
             CHOOSE res \in
               {[e |-> IF r.value # f.values[pi]
                       THEN [r.e EXCEPT !.errs = @ + 1] ELSE r.e,
                 value |-> r.value, cvals |-> Append(st.cvals, r.value)] :
                  r \in {CHOOSE r1 \in
                           {ParamCheck(d.e, f, f.params[pi], pi - 1,
                                       st.value) :
                              d \in {EDraw(st.e, 100)}} : TRUE}} : TRUE,
           EPanicked, [e |-> e, value |-> value, cvals |-> <<>>],
           1, Len(f.params))

\* emitParamChecks
emitParamChecks(e, f, value) ==
  CHOOSE res \in
    {LET haveControl == \E pi \in DOMAIN f.params : IsControl(f.params[pi])
     IN IF rc.e.panicked
        THEN [e |-> Panic(e), value |-> value, cvals |-> <<>>,
              haveControl |-> haveControl]
        ELSE [e |-> rc.e, value |-> rc.value, cvals |-> rc.cvals,
              haveControl |-> haveControl] :
       rc \in {CHOOSE rc1 \in
                 {IF f.method /\ ~r.e.panicked
                  THEN ReceiverLeaves(r.e, f, r.value) @@ r
                  ELSE r :
                    r \in {ParamChecksLoop(e, f, value)}} : TRUE}} : TRUE

\* emitDeferChecks passes parameter pi into the closure: not the control,
\* not a blank one, and dodefp below 50
DeferPassed(f, pi) ==
  ~IsControl(f.params[pi]) /\ ~f.params[pi].blank /\ f.dodefp[pi] < 50

\* the closure lists of emitDeferChecks that pass the control parameter
\* and the blank ones too
RECURSIVE MutDeferList(_, _, _, _)
MutDeferList(f, pi, pc, decl) ==
  IF pi > Len(f.params) THEN ""
  ELSE IF f.dodefp[pi] >= 50 THEN MutDeferList(f, pi + 1, pc, decl)
  ELSE (IF pc > 0 THEN ", " ELSE "")
         \o (IF decl
             THEN Declare(f.params[pi], "p" \o ToString(pi - 1), "", FALSE)
             ELSE "p" \o ToString(pi - 1))
         \o MutDeferList(f, pi + 1, pc + 1, decl)

\* the two closure lists of emitDeferChecks from parameter pi on, pc
\* written so far: the parameters it declares (decl) and the arguments it
\* is called with
RECURSIVE DeferList(_, _, _, _)
DeferList(f, pi, pc, decl) ==
  IF pi > Len(f.params) THEN ""
  ELSE IF ~DeferPassed(f, pi) THEN DeferList(f, pi + 1, pc, decl)
  ELSE (IF pc > 0 THEN ", " ELSE "")
         \o (IF decl
             THEN Declare(f.params[pi], "p" \o ToString(pi - 1), "", FALSE)
             ELSE "p" \o ToString(pi - 1))
         \o DeferList(f, pi + 1, pc + 1, decl)

\* the leaf loop of emitDeferChecks for parameter pi (0-based)
DeferLeaves(e, f, p, pi) ==
  ForRange(LAMBDA st, i :
             CHOOSE res \in
               {IF el.path \in {"", "_"} \/ checkableElements(p) = 0
                THEN el.e
                ELSE emitParamElemCheck(
                       el.e, f, el.p, el.path, el.refs,
                       "p" \o ToString(pi) \o "f" \o ToString(i) \o "c",
                       pi, i) :
                  el \in {LeafRef(st, p, pi, i)}} : TRUE,
           Panicked, e, 0, NumElements(p) - 1)

\* the checking loop of emitDeferChecks
DeferParams(e, f) ==
  ForRange(LAMBDA st, pi :
             LET p == f.params[pi]
                 which == IF f.dodefp[pi] < 50 THEN "passed" ELSE "captured"
             IN IF IsControl(p) \/ p.blank THEN st
                ELSE DeferLeaves(W(st, "  // check parm " \o which, {}),
                                 f, p, pi - 1),
           Panicked, e, 1, Len(f.params))

\* emitDeferChecks: draws nothing
emitDeferChecks(e, f) ==
  IF Len(f.params) = 0 THEN e
  ELSE W(DeferParams(W(e, "  defer func(" \o DeferList(f, 1, 0, TRUE)
                            \o ") {", {}), f),
         "  } (" \o DeferList(f, 1, 0, FALSE) \o ")", {})

\* the address-taking loop of emitChecker over one list (params or returns)
AddrBindings(e, lst, n) ==
  ForRange(LAMBDA st, pi :
             LET p == lst[pi]
                 an == "a" \o n \o ToString(pi - 1)
                 e1 == W(st, "  " \o an \o " := &" \o n \o ToString(pi - 1),
                         {})
                 gv == genGlobVar(e1, p)
             IN IF p.addr = notAddrTaken THEN st
                ELSE IF p.addr = addrTakenHeap
                THEN W(gv.e, "  " \o gv.name \o " = " \o an, {gv.name})
                ELSE e1,
           Panicked, e, 1, Len(lst))

\* decimal digits of n, and the order of strings on them
RECURSIVE Digits(_)
Digits(n) == IF n < 10 THEN <<n>> ELSE Append(Digits(n \div 10), n % 10)

RECURSIVE SeqLess(_, _)
SeqLess(a, b) ==
  IF a = <<>> THEN b # <<>>
  ELSE IF b = <<>> THEN FALSE
  ELSE IF Head(a) # Head(b) THEN Head(a) < Head(b)
  ELSE SeqLess(Tail(a), Tail(b))

\* the map types reachable from p (the worklist loop of containedParms,
\* restricted to the entries its caller uses)
RECURSIVE containedMaps(_)
RECURSIVE containedMapsOf(_, _)
containedMapsOf(kids, i) ==
  IF i > Len(kids) THEN {}
  ELSE containedMaps(kids[i]) \cup containedMapsOf(kids, i + 1)

containedMaps(p) ==
  (IF p.kind = "map" THEN {[ns |-> p.ns, keytmp |-> p.keytmp]} ELSE {})
    \cup containedMapsOf(p.kids, 1)

\* range over the visited map: an order the runtime picks
RECURSIVE MapRange(_, _)
MapRange(S, order) ==
  IF S = {} THEN <<>>
  ELSE LET x == IF order = "up"
                THEN CHOOSE y \in S : \A z \in S : y.ns <= z.ns
                ELSE CHOOSE y \in S : \A z \in S : y.ns >= z.ns
       IN <<x>> \o MapRange(S \ {x}, order)

\* sort.Slice by TypeName: the names differ in the number after "M" only
RECURSIVE SortByTypeName(_)
SortByTypeName(q) ==
  IF q = <<>> THEN <<>>
  ELSE LET S == {q[i] : i \in DOMAIN q}
           m == CHOOSE y \in S :
                  \A z \in S : y = z \/ SeqLess(Digits(y.ns), Digits(z.ns))
           rest == SelectSeq(q, LAMBDA y : y # m)
       IN <<m>> \o SortByTypeName(rest)

\* containedParms without the sort
MutContainedParms(p, order) == MapRange(containedMaps(p), order)

\* containedParms
containedParms(p, order) == SortByTypeName(MapRange(containedMaps(p), order))

\* the loop shared by emitDerefFuncs, emitAssignFuncs, emitNewFuncs,
\* emitGlobalVars and emitGenValFuncs: define each new helper, or, when
\* the pair is not emitted, note the skip and delete its tag from the map;
\* then empty the list of new helpers.
FlushLoop(e, f, mapfld, newfld, emit) ==
  [ForRange(LAMBDA st, i :
              LET fd == e[newfld][i]
                  keys == IF mapfld = "genvalFuncs" /\ f.mapkeyts # ""
                          THEN containedParms(fd.p, e.maporder) ELSE <<>>
                  body == [k \in DOMAIN keys |-> keys[k].keytmp]
              IN IF ~emit
                 THEN [W(st, "// skip " \o fd.name, {})
                         EXCEPT ![mapfld] = Delete(@, fd.tag)]
                 ELSE [W(st, "func " \o fd.name \o " " \o fd.tag
                               \o " { " \o fd.payload \o " }", {})
                         EXCEPT !.defs = Append(@, fd.name),
                                !.b = @ \o body],
            Panicked, e, 1, Len(e[newfld]))
     EXCEPT ![newfld] = <<>>]

emitDerefFuncs(e, f, emit) ==
  FlushLoop(e, f, "derefFuncs", "newDerefFuncs", emit)

emitAssignFuncs(e, f, emit) ==
  FlushLoop(e, f, "assignFuncs", "newAssignFuncs", emit)

emitNewFuncs(e, f, emit) ==
  FlushLoop(e, f, "allocFuncs", "newAllocFuncs", emit)

emitGlobalVars(e, f, emit) ==
  FlushLoop(e, f, "globVars", "newGlobVars", emit)

emitGenValFuncs(e, f, emit) ==
  FlushLoop(e, f, "genvalFuncs", "newGenvalFuncs", emit)

\* emitAddrTakenHelpers: the five flushes in the order of the code
emitAddrTakenHelpers(e, f, emit) ==
  ForRange(LAMBDA st, n :
             CASE n = 1 -> emitDerefFuncs(st, f, emit)
               [] n = 2 -> emitAssignFuncs(st, f, emit)
               [] n = 3 -> emitNewFuncs(st, f, emit)
               [] n = 4 -> emitGlobalVars(st, f, emit)
               [] n = 5 -> emitGenValFuncs(st, f, emit),
           Panicked, W(e, "// begin addr taken helpers", {}), 1, 5)

\* the parameter list of the checker's signature
RECURSIVE SigList(_, _, _)
SigList(lst, n, i) ==
  IF i > Len(lst) THEN ""
  ELSE Com(i)
         \o Declare(lst[i], IF lst[i].blank /\ n = "p" THEN "_"
                            ELSE n \o ToString(i - 1), "", FALSE)
         \o SigList(lst, n, i + 1)

\* emitChecker up to the parameter checks: the signature, the map keys,
\* the values to return, the address-taken bindings
CheckerPrologue(e0, f) ==
  LET rcv == IF f.method
             THEN " (" \o Declare(f.receiver,
                                  IF f.receiver.blank THEN "_" ELSE "rcvr",
                                  "", FALSE) \o ")"
             ELSE ""
      e1 == W(W(e0, "func" \o rcv \o " Test" \o ToString(f.idx) \o "("
                      \o SigList(f.params, "p", 1) \o ") ("
                      \o SigList(f.returns, "r", 1) \o ") {", {}),
              "  var pad [" \o ToString(f.rstack) \o "]uint64", {})
  IN CHOOSE res \in
       {CHOOSE res2 \in
          {[e |-> e2, value |-> rc.value] :
             e2 \in {AddrBindings(AddrBindings(rc.e, f.params, "p"),
                                  f.returns, "r")}} : TRUE :
          rc \in {CHOOSE rc1 \in
                    {ReturnConstants(mk.e, f, "rc", mk.value, FALSE) :
                       mk \in {emitMapKeyTmps(e1, f, 1, FALSE)}} : TRUE}}
       : TRUE

\* emitChecker after the parameter checks: the deferred checks, the
\* return, the helpers
CheckerEpilogue(e0, f, pc, emit) ==
  CHOOSE res \in
    {IF e4.panicked
     THEN [e |-> Panic(e0), cvals |-> <<>>, value |-> 0]
     ELSE [e |-> emitAddrTakenHelpers(e4, f, emit), cvals |-> pc.cvals,
           value |-> pc.value] :
       e4 \in {CHOOSE e41 \in
                 {W(emitReturn(e3, f, pc.haveControl), "}", {}) :
                    e3 \in {IF /\ e0.tunables.doDefer
                               /\ f.dodefc < e0.tunables.deferFraction
                            THEN emitDeferChecks(pc.e, f) ELSE pc.e}}
                 : TRUE}} : TRUE

\* emitChecker: the checker text in e.b; cvals holds the value counter
\* after each parameter
emitChecker(e0, f, emit) ==
  CHOOSE res \in
    {IF pc.e.panicked
     THEN [e |-> Panic(e0), cvals |-> <<>>, value |-> 0]
     ELSE CheckerEpilogue(e0, f, pc, emit) :
       pc \in {CHOOSE pc1 \in
                 {emitParamChecks(pr.e, f, pr.value) :
                    pr \in {CheckerPrologue(e0, f)}} : TRUE}} : TRUE

\* ------------------------------------------------------------- driver

\* the helper maps as Generate makes them for each package
EmptyReg ==
  [derefFuncs |-> {}, assignFuncs |-> {}, allocFuncs |-> {},
   globVars |-> {}, genvalFuncs |-> {},
   newDerefFuncs |-> <<>>, newAssignFuncs |-> <<>>, newAllocFuncs |-> <<>>,
   newGlobVars |-> <<>>, newGenvalFuncs |-> <<>>]

RegOf(e) ==
  [derefFuncs |-> e.derefFuncs, assignFuncs |-> e.assignFuncs,
   allocFuncs |-> e.allocFuncs, globVars |-> e.globVars,
   genvalFuncs |-> e.genvalFuncs,
   newDerefFuncs |-> e.newDerefFuncs, newAssignFuncs |-> e.newAssignFuncs,
   newAllocFuncs |-> e.newAllocFuncs, newGlobVars |-> e.newGlobVars,
   newGenvalFuncs |-> e.newGenvalFuncs]

\* genstate at the start of Generate
NewState(rnd, global) ==
  [reg |-> EmptyReg, tstack |-> <<>>, errs |-> 0, rnd |-> rnd,
   global |-> global, tunables |-> [doReflectCall |-> FALSE],
   panicked |-> FALSE]

\* a next seed that advances for emitted pairs only
MutNextSeed(seed, emit) == IF emit THEN seed + 1 ELSE seed

\* return seed + 1
NextSeed(seed, emit) == seed + 1

\* wraprand.Check: panics unless the two streams are Equal
Check(w, w2) == WrEqual(w, w2)

\* the record of a pair whose generation ended in a panic at stage `where'
CrashedPair(s, fidx, pidx, seed, emit, where) ==
  [s |-> [s EXCEPT !.panicked = TRUE],
   seed |-> seed,
   pair |-> [fidx |-> fidx, pidx |-> pidx, seed |-> seed, emit |-> emit,
             crashed |-> where, fp |-> NoParm,
             caller |-> [b |-> <<>>, refs |-> {}, calls |-> <<>>,
                         lits |-> <<>>, intncalls |-> 0, f32calls |-> 0,
                         f64calls |-> 0],
             checker |-> [b |-> <<>>, refs |-> {}, defs |-> <<>>,
                          calls |-> <<>>, lits |-> <<>>, intncalls |-> 0,
                          f32calls |-> 0, f64calls |-> 0, cvals |-> <<>>]]]

\* what GenPair keeps of an emitter's state for the written text
TextOf(e) ==
  [b |-> e.b, refs |-> e.refs, calls |-> e.wr.calls, lits |-> e.lits,
   intncalls |-> e.wr.intncalls, f32calls |-> e.wr.f32calls,
   f64calls |-> e.wr.f64calls]

\* GenPair from emitChecker on, with wraprand.Check
GenPairCheck(s, fp0, cl, fidx, pidx, seed, emit, order) ==
  CHOOSE res \in
    {IF ck.e.panicked
     THEN CrashedPair(s, fidx, pidx, seed, emit, "emitChecker")
     ELSE IF ~Check(ck.e.wr, cl.e.wr)
     THEN [CrashedPair(s, fidx, pidx, seed, emit, "Check")
             EXCEPT !.pair.fp = [fp0 EXCEPT !.values = cl.values],
                    !.pair.caller = TextOf(cl.e),
                    !.pair.checker =
                      TextOf(ck.e) @@
                      [defs |-> ck.e.defs, cvals |-> ck.cvals]]
     ELSE [s |-> [s EXCEPT !.reg = RegOf(ck.e), !.tstack = fp0.tstack,
                           !.tunables = fp0.tunables,
                           !.errs = ck.e.errs, !.rnd = ck.e.wr.s],
           seed |-> NextSeed(seed, emit),
           pair |-> [fidx |-> fidx, pidx |-> pidx, seed |-> seed,
                     emit |-> emit, crashed |-> "",
                     fp |-> [fp0 EXCEPT !.values = cl.values],
                     caller |-> TextOf(cl.e),
                     checker |-> TextOf(ck.e) @@
                                 [defs |-> ck.e.defs, cvals |-> ck.cvals]]] :
       ck \in {emitChecker(NewEmitState(NewWrapRand(seed, s.rnd),
                                        RegOf(cl.e), order, fp0.tunables,
                                        pidx, s.errs),
                           [fp0 EXCEPT !.values = cl.values], emit)}} : TRUE

\* GenPair from emitCaller on
GenPairEmit(s, fp0, fidx, pidx, seed, emit, order) ==
  CHOOSE res \in
    {IF cl.e.panicked
     THEN CrashedPair(s, fidx, pidx, seed, emit, "emitCaller")
     ELSE GenPairCheck(s, fp0, cl, fidx, pidx, seed, emit, order) :
       cl \in {emitCaller(NewEmitState(NewWrapRand(seed, s.rnd), s.reg,
                                       order, fp0.tunables, pidx, s.errs),
                          fp0)}} : TRUE

\* GenPair: one function generated, its caller and checker emitted, the
\* texts written when emit is set.  s is the genstate, order the order in
\* which the runtime ranges over maps during this call.
GenPair(s, fidx, pidx, seed, emit, order) ==
  IF ~checkTunables(s.global)
  THEN CrashedPair(s, fidx, pidx, seed, emit, "checkTunables") ELSE
  CHOOSE res \in
    {IF fp0.panicked
     THEN CrashedPair(s, fidx, pidx, seed, emit, "GenFunc")
     ELSE GenPairEmit(s, fp0, fidx, pidx, seed, emit, order) :
       fp0 \in {GenFunc(NewGenState(NewWrapRand(seed, s.rnd), s.global,
                                    s.tstack, fidx, pidx))}} : TRUE

\* emitFP with the two tests joined by "or"
MutEmitFP(fn, pk, fcnmask, pkmask) ==
  LET emitpk == IF pkmask # {} THEN pk \in pkmask ELSE TRUE
      emitfn == IF fcnmask # {} THEN fn \in fcnmask ELSE TRUE
  IN emitpk \/ emitfn

\* emitFP
emitFP(fn, pk, fcnmask, pkmask) ==
  LET emitpk == IF pkmask # {} THEN pk \in pkmask ELSE TRUE
      emitfn == IF fcnmask # {} THEN fn \in fcnmask ELSE TRUE
  IN emitpk /\ emitfn

\* s.callerPkg
callerPkg(which) == "genCaller" \o ToString(which)

\* the call lines of emitMain for package k
RECURSIVE MainCalls(_, _, _, _, _, _)
MainCalls(s, k, i, numit, fcnmask, pkmask) ==
  IF i >= numit THEN <<>>
  ELSE (IF emitFP(i, k, fcnmask, pkmask)
        THEN <<"  " \o callerPkg(k) \o ".Caller" \o ToString(i)
                 \o "(normal)">>
               \o (IF s.tunables.doReflectCall
                   THEN <<"  " \o callerPkg(k) \o ".Caller" \o ToString(i)
                            \o "(reflect)">>
                   ELSE <<>>)
        ELSE <<>>)
         \o MainCalls(s, k, i + 1, numit, fcnmask, pkmask)

RECURSIVE MainPkgs(_, _, _, _, _, _)
MainPkgs(s, k, numtpk, numit, fcnmask, pkmask) ==
  IF k >= numtpk THEN <<>>
  ELSE MainCalls(s, k, 0, numit, fcnmask, pkmask)
         \o MainPkgs(s, k + 1, numtpk, numit, fcnmask, pkmask)

\* emitMain as it would be if it did not consult the function mask
MutEmitMain(s, numit, numtpk, fcnmask, pkmask) ==
  <<"func main() {", "  starting main">>
    \o MainPkgs(s, 0, numtpk, numit, {}, pkmask)
    \o <<"  if genUtils.FailCount != 0 {", "    FAILURES", "    os.Exit(2)",
         "  }", "  finished " \o ToString(numit * numtpk) \o " tests", "}">>

\* emitMain: the lines of the main function
emitMain(s, numit, numtpk, fcnmask, pkmask) ==
  <<"func main() {", "  starting main">>
    \o MainPkgs(s, 0, numtpk, numit, fcnmask, pkmask)
    \o <<"  if genUtils.FailCount != 0 {", "    FAILURES", "    os.Exit(2)",
         "  }", "  finished " \o ToString(numit * numtpk) \o " tests", "}">>

\* the per-package reset of Generate: the five maps are made anew, and
\* three of the five new lists are cleared
PkgReset(s) ==
  [s EXCEPT !.reg = [EmptyReg EXCEPT
                       !.newAllocFuncs = s.reg.newAllocFuncs,
                       !.newGenvalFuncs = s.reg.newGenvalFuncs]]

\* ------------------------------------------------------- state machine

\* the orders in which the runtime may range over a map
MapOrders == {"up", "down"}

\* the tunables of the run: the defaults, limited as the command line asks
RunTunables == LimitOutputs(LimitInputs(tunables, InLimit), OutLimit)

\* the settings of the tunables Generate is run under: the run's own; every
\* function asked to be recursive; every function a method as well; no
\* nesting to speak of; deeper nesting with wider structs
TunSettings ==
  {RunTunables,
   [RunTunables EXCEPT !.recurPerc = 100],
   [RunTunables EXCEPT !.recurPerc = 100, !.methodPerc = 100],
   [RunTunables EXCEPT !.structDepth = 1],
   [RunTunables EXCEPT !.structDepth = 4, !.nStructFields = 9,
                       !.methodPerc = 100]}

\* Three runs of Generate advance together on the same seed and tunables:
\* run A under the masks, run B without masks, run C under the masks from
\* another leftover state of the global random source.  out* hold the
\* pairs generated so far, main* the text of main, ret* the value
\* returned.
VARIABLES seed0, fcnmask, pkmask, pc, k, i,
          seedA, seedB, seedC, sA, sB, sC, outA, outB, outC,
          mainA, mainB, mainC, retA, retB, retC

\* The program run A wrote, when it is run: maxfail is the limit emitUtils
\* wrote into it, utils the globals of its utils package with what it has
\* printed and its exit status, rpc where it stands, line the line of main
\* it is at, cur and mode the Caller it is in, ctl the control parameter of
\* the running activation of the checker, acts the activations of this
\* call, pending the deferred closures not yet run, failed whether the
\* checker returned early, rchk the next return to compare, ends the
\* EndFcn calls so far: their number n, the totals param and ret of the two
\* counters they found, the counters lastp and lastr the last one found,
\* and over, whether one of them left the sum of the three counters above
\* maxfail.
VARIABLES maxfail, utils, rpc, line, cur, mode, ctl, acts, pending, failed,
          rchk, ends

rvars == <<maxfail, utils, rpc, line, cur, mode, ctl, acts, pending, failed,
           rchk, ends>>

\* One call of a function of the generator made on its own: probe holds
\* its arguments and, once it has returned, its result.
VARIABLE probe

vars == <<seed0, fcnmask, pkmask, pc, k, i, seedA, seedB, seedC,
          sA, sB, sC, outA, outB, outC, mainA, mainB, mainC,
          retA, retB, retC, rvars, probe>>

\* no call is made on its own
NoProbe == [op |-> "none"]

\* the emitted program before it is started
NotStarted ==
  /\ utils = [ParamFailCount |-> 0, ReturnFailCount |-> 0, FailCount |-> 0,
              calls |-> 0, stderr |-> 0, status |-> -1]
  /\ rpc = "idle" /\ line = 0 /\ cur = 0 /\ mode = "" /\ ctl = 0
  /\ acts = 0 /\ pending = 0 /\ failed = FALSE /\ rchk = 0
  /\ ends = [n |-> 0, param |-> 0, ret |-> 0, lastp |-> 0, lastr |-> 0,
             over |-> FALSE]

Init ==
  /\ seed0 \in 0..MaxSeed
  /\ fcnmask \in SUBSET (0..(NumFuncs - 1))
  /\ pkmask \in SUBSET (0..(NumPkgs - 1))
  /\ pc = "package" /\ k = 0 /\ i = 0
  /\ seedA = seed0 /\ seedB = seed0 /\ seedC = seed0
  /\ sA = NewState(0, RunTunables)
  /\ sB = NewState(0, RunTunables)
  /\ sC \in {NewState(r, RunTunables) : r \in 1..MaxRnd}
  /\ outA = <<>> /\ outB = <<>> /\ outC = <<>>
  /\ mainA = <<>> /\ mainB = <<>> /\ mainC = <<>>
  /\ retA = -1 /\ retB = -1 /\ retC = -1
  /\ maxfail = MaxFail /\ NotStarted
  /\ probe = NoProbe

\* the head of the package loop of Generate
StartPackage ==
  /\ pc = "package"
  /\ sA' = PkgReset(sA) /\ sB' = PkgReset(sB) /\ sC' = PkgReset(sC)
  /\ i' = 0
  /\ pc' = "pair"
  /\ UNCHANGED <<seed0, fcnmask, pkmask, k, seedA, seedB, seedC,
                 outA, outB, outC, mainA, mainB, mainC, retA, retB, retC,
                 rvars, probe>>

\* one turn of the function loop of Generate: seed = s.GenPair(...)
GenPairStep ==
  /\ pc = "pair"
  /\ \E ra \in {GenPair(sA, i, k, seedA, emitFP(i, k, fcnmask, pkmask), o) :
                  o \in MapOrders},
        rb \in {GenPair(sB, i, k, seedB, TRUE, o) : o \in MapOrders},
        rc \in {GenPair(sC, i, k, seedC, emitFP(i, k, fcnmask, pkmask), o) :
                  o \in MapOrders} :
       /\ sA' = ra.s /\ seedA' = ra.seed /\ outA' = Append(outA, ra.pair)
       /\ sB' = rb.s /\ seedB' = rb.seed /\ outB' = Append(outB, rb.pair)
       /\ sC' = rc.s /\ seedC' = rc.seed /\ outC' = Append(outC, rc.pair)
       /\ pc' = IF ra.s.panicked \/ rb.s.panicked \/ rc.s.panicked
                THEN "panic"
                ELSE IF i + 1 < NumFuncs THEN "pair"
                ELSE IF k + 1 < NumPkgs THEN "package" ELSE "main"
  /\ i' = i + 1
  /\ k' = IF i + 1 < NumFuncs THEN k ELSE k + 1
  /\ UNCHANGED <<seed0, fcnmask, pkmask, mainA, mainB, mainC,
                 retA, retB, retC, rvars, probe>>

\* the tail of Generate: emitMain, then return s.errs
EmitMain ==
  /\ pc = "main"
  /\ mainA' = emitMain(sA, NumFuncs, NumPkgs, fcnmask, pkmask)
  /\ mainB' = emitMain(sB, NumFuncs, NumPkgs, {}, {})
  /\ mainC' = emitMain(sC, NumFuncs, NumPkgs, fcnmask, pkmask)
  /\ retA' = sA.errs /\ retB' = sB.errs /\ retC' = sC.errs
  /\ pc' = "done"
  /\ UNCHANGED <<seed0, fcnmask, pkmask, k, i, seedA, seedB, seedC,
                 sA, sB, sC, outA, outB, outC, rvars, probe>>

Next == StartPackage \/ GenPairStep \/ EmitMain

Spec == Init /\ [][Next]_vars

\* the seeds Generate is started on when the tunables vary
TunSeeds == (0..MaxSeed) \cup {3747, 3821, 5292}

\* Generate called without masks under each setting of the tunables
TunInit ==
  /\ seed0 \in TunSeeds
  /\ fcnmask = {} /\ pkmask = {}
  /\ pc = "package" /\ k = 0 /\ i = 0
  /\ seedA = seed0 /\ seedB = seed0 /\ seedC = seed0
  /\ \E t \in TunSettings :
       /\ sA = NewState(0, t)
       /\ sB = NewState(0, t)
       /\ sC \in {NewState(r, t) : r \in 1..MaxRnd}
  /\ outA = <<>> /\ outB = <<>> /\ outC = <<>>
  /\ mainA = <<>> /\ mainB = <<>> /\ mainC = <<>>
  /\ retA = -1 /\ retB = -1 /\ retC = -1
  /\ maxfail = MaxFail /\ NotStarted
  /\ probe = NoProbe

TunSpec == TunInit /\ [][Next]_vars

\* ---------------------------------------------------- the emitted program

\* countfail without the test of ParamFailCount
MutCountfail(u, isret) ==
  IF isret
  THEN [u |-> [u EXCEPT !.ReturnFailCount = @ + 1], counted |-> TRUE]
  ELSE [u |-> [u EXCEPT !.ParamFailCount = @ + 1], counted |-> TRUE]

\* countfail, as emitUtils writes it into NoteFailure and NoteFailureElem:
\* counted is FALSE where the written code returns from the function
countfail(u, isret) ==
  IF isret
  THEN IF u.ParamFailCount # 0
       THEN [u |-> u, counted |-> FALSE]
       ELSE [u |-> [u EXCEPT !.ReturnFailCount = @ + 1], counted |-> TRUE]
  ELSE [u |-> [u EXCEPT !.ParamFailCount = @ + 1], counted |-> TRUE]

\* earlyexit with the limit reached, not passed
MutEarlyexit(u, mf) ==
  IF u.ParamFailCount + u.FailCount + u.ReturnFailCount >= mf
  THEN [u EXCEPT !.status = 1] ELSE u

\* earlyexit, as emitUtils writes it with the limit mf
earlyexit(u, mf) ==
  IF u.ParamFailCount + u.FailCount + u.ReturnFailCount > mf
  THEN [u EXCEPT !.status = 1] ELSE u

\* NoteFailure and NoteFailureElem of the emitted utils package: countfail,
\* one line on the error stream, earlyexit; calls counts the calls made
NoteFailure(u, isret, mf) ==
  LET c == countfail([u EXCEPT !.calls = @ + 1], isret)
  IN IF ~c.counted THEN c.u
     ELSE earlyexit([c.u EXCEPT !.stderr = @ + 1], mf)

\* BeginFcn of the emitted utils package
BeginFcn(u) == [u EXCEPT !.ParamFailCount = 0, !.ReturnFailCount = 0]

\* EndFcn with the return failures left out
MutEndFcn(u) == [u EXCEPT !.FailCount = @ + u.ParamFailCount]

\* EndFcn of the emitted utils package
EndFcn(u) ==
  [u EXCEPT !.FailCount = @ + u.ParamFailCount + u.ReturnFailCount]

\* the line of main that calls the Caller of pair q in mode m
CallLine(q, m) ==
  "  " \o callerPkg(q.pidx) \o ".Caller" \o ToString(q.fidx)
    \o "(" \o m \o ")"

\* emitParamChecks and emitDeferChecks write a comparison for some leaf of
\* parameter pi of f
ParamChecked(f, pi) ==
  LET p == f.params[pi]
  IN /\ ~IsControl(p) /\ ~p.blank
     /\ checkableElements(p) # 0
     /\ \E n \in 0..(NumElements(p) - 1) :
          LET el == GenElemRef(p, n, "p")
          IN el.path \notin {"", "_"} /\ NumElements(genDeref(el.p).p) # 0

\* emitParamChecks writes a comparison for some leaf of the receiver of f
ReceiverChecked(f) ==
  /\ f.method /\ ~f.receiver.blank
  /\ \E n \in 0..(NumElements(f.receiver) - 1) :
       LET el == GenElemRef(f.receiver, n, "rcvr")
       IN el.path \notin {"", "_"} /\ NumElements(genDeref(el.p).p) # 0

\* an activation of the checker of f with control value c can find a
\* mismatch: some comparison stands before the guard that returns, or the
\* guard does not return
CanMismatch(f, c) ==
  IF f.recur /\ c = ControlStop
  THEN \E pi \in DOMAIN f.params :
         /\ ParamChecked(f, pi)
         /\ \A pj \in DOMAIN f.params : IsControl(f.params[pj]) => pi < pj
  ELSE ReceiverChecked(f) \/ \E pi \in DOMAIN f.params : ParamChecked(f, pi)

\* emitChecker writes a deferred closure into the checker of f
Defers(f) ==
  /\ f.tunables.doDefer /\ f.dodefc < f.tunables.deferFraction
  /\ Len(f.params) # 0

\* the comparison of a value of type p, all zero, with its constant takes
\* the target of a nil pointer: p is a struct or an array with a pointer
\* for a field or element that EqualN compares through a star
DerefsNil(p) ==
  /\ HasPointer(p) /\ ~p.blank
  /\ \/ /\ p.kind = "struct"
        /\ \E j \in DOMAIN p.kids :
             /\ p.kids[j].kind = "pointer" /\ ~p.kids[j].blank
             /\ NumElements(genDeref(p.kids[j]).p) # 0
     \/ /\ p.kind = "array" /\ ~p.slice /\ p.nelements > 0
        /\ p.kids[1].kind = "pointer"
        /\ NumElements(genDeref(p.kids[1]).p) # 0

\* the function whose Caller runs
CurF == outA[cur].fp

\* where the checker's return leads: to the deferred closures of the
\* activations that registered one, then to the caller's comparisons
Unwind(n) == IF n > 0 THEN "unwind" ELSE "returns"

\* the program Generate wrote is started: main prints its first line
StartMain ==
  /\ pc = "done" /\ rpc = "idle"
  /\ \A n \in DOMAIN outA : outA[n].crashed = "" /\ outA[n].emit
  /\ rpc' = "main" /\ line' = 3
  /\ UNCHANGED <<seed0, fcnmask, pkmask, pc, k, i, seedA, seedB, seedC,
                 sA, sB, sC, outA, outB, outC, mainA, mainB, mainC,
                 retA, retB, retC, probe, maxfail, utils, cur, mode, ctl, acts,
                 pending, failed, rchk, ends>>

\* main calls a Caller, which calls BeginFcn, makes the constants and
\* calls the checker, the control parameter being ControlStart
CallerBegin ==
  /\ rpc = "main" /\ line \in DOMAIN mainA
  /\ \E n \in DOMAIN outA, m \in {"normal", "reflect"} :
       /\ mainA[line] = CallLine(outA[n], m)
       /\ cur' = n /\ mode' = m
  /\ utils' = BeginFcn(utils)
  /\ ctl' = ControlStart /\ acts' = 0 /\ pending' = 0 /\ failed' = FALSE
  /\ rchk' = 1
  /\ rpc' = "test"
  /\ UNCHANGED <<seed0, fcnmask, pkmask, pc, k, i, seedA, seedB, seedC,
                 sA, sB, sC, outA, outB, outC, mainA, mainB, mainC,
                 retA, retB, retC, probe, maxfail, line, ends>>

\* one activation of the checker: a comparison of a parameter fails,
\* NoteFailureElem is called and the checker returns; or the guard returns
\* the return constants; or the closure is deferred and the checker calls
\* itself with the control less ControlStep, or returns
TestN ==
  /\ rpc = "test"
  /\ acts' = acts + 1
  /\ \/ /\ CanMismatch(CurF, ctl)
        /\ utils' = NoteFailure(utils, FALSE, maxfail)
        /\ failed' = TRUE
        /\ rpc' = IF utils'.status # -1 THEN "exited" ELSE Unwind(pending)
        /\ UNCHANGED <<ctl, pending>>
     \/ /\ CurF.recur /\ ctl = ControlStop
        /\ rpc' = Unwind(pending)
        /\ UNCHANGED <<utils, ctl, pending, failed>>
     \/ /\ CurF.recur /\ ctl # ControlStop
        /\ pending' = IF Defers(CurF) THEN pending + 1 ELSE pending
        /\ ctl' = ctl - ControlStep
        /\ rpc' = "test"
        /\ UNCHANGED <<utils, failed>>
     \/ /\ ~CurF.recur
        /\ pending' = IF Defers(CurF) THEN pending + 1 ELSE pending
        /\ rpc' = Unwind(pending')
        /\ UNCHANGED <<utils, ctl, failed>>
  /\ UNCHANGED <<seed0, fcnmask, pkmask, pc, k, i, seedA, seedB, seedC,
                 sA, sB, sC, outA, outB, outC, mainA, mainB, mainC,
                 retA, retB, retC, probe, maxfail, line, cur, mode, rchk, ends>>

\* a deferred closure runs as its activation returns: its comparisons pass,
\* or one fails, NoteFailureElem is called and the closure returns
DeferRun ==
  /\ rpc = "unwind" /\ pending > 0
  /\ pending' = pending - 1
  /\ \/ /\ \E pi \in DOMAIN CurF.params : ParamChecked(CurF, pi)
        /\ utils' = NoteFailure(utils, FALSE, maxfail)
     \/ utils' = utils
  /\ rpc' = IF utils'.status # -1 THEN "exited" ELSE Unwind(pending')
  /\ UNCHANGED <<seed0, fcnmask, pkmask, pc, k, i, seedA, seedB, seedC,
                 sA, sB, sC, outA, outB, outC, mainA, mainB, mainC,
                 retA, retB, retC, probe, maxfail, line, cur, mode, ctl, acts,
                 failed, rchk, ends>>

\* the comparison of return n of f is made when ParamFailCount is pfc
Compares(f, n, pfc) ==
  LET d == genDeref(f.returns[n])
  IN NumElements(d.p) # 0 /\ (d.star = "" \/ pfc = 0)

\* the Caller compares return rchk with its constant: nothing to compare,
\* or the condition on ParamFailCount keeps it from comparing; or the
\* checker returned early, the value is all zero and comparing it takes
\* the target of a nil pointer; or the values agree; or they differ and
\* NoteFailure is called
CheckReturn ==
  /\ rpc = "returns" /\ rchk \in DOMAIN CurF.returns
  /\ rchk' = rchk + 1
  /\ IF ~Compares(CurF, rchk, utils.ParamFailCount)
     THEN utils' = utils /\ rpc' = "returns"
     ELSE IF failed /\ DerefsNil(genDeref(CurF.returns[rchk]).p)
     THEN utils' = [utils EXCEPT !.status = 2] /\ rpc' = "panic"
     ELSE /\ \/ utils' = utils
             \/ utils' = NoteFailure(utils, TRUE, maxfail)
          /\ rpc' = IF utils'.status # -1 THEN "exited" ELSE "returns"
  /\ UNCHANGED <<seed0, fcnmask, pkmask, pc, k, i, seedA, seedB, seedC,
                 sA, sB, sC, outA, outB, outC, mainA, mainB, mainC,
                 retA, retB, retC, probe, maxfail, line, cur, mode, ctl, acts,
                 pending, failed, ends>>

\* the Caller calls EndFcn and returns to main
CallerEnd ==
  /\ rpc = "returns" /\ rchk \notin DOMAIN CurF.returns
  /\ utils' = EndFcn(utils)
  /\ ends' = [n |-> ends.n + 1,
              param |-> ends.param + utils.ParamFailCount,
              ret |-> ends.ret + utils.ReturnFailCount,
              lastp |-> utils.ParamFailCount,
              lastr |-> utils.ReturnFailCount,
              over |-> ends.over
                         \/ utils'.ParamFailCount + utils'.FailCount
                              + utils'.ReturnFailCount > maxfail]
  /\ line' = line + 1
  /\ rpc' = "main"
  /\ UNCHANGED <<seed0, fcnmask, pkmask, pc, k, i, seedA, seedB, seedC,
                 sA, sB, sC, outA, outB, outC, mainA, mainB, mainC,
                 retA, retB, retC, probe, maxfail, cur, mode, ctl, acts, pending,
                 failed, rchk>>

\* the tail of main: exit 2 when FailCount is not 0, else the line
\* "finished" and status 0
MainEnd ==
  /\ rpc = "main" /\ line \in DOMAIN mainA
  /\ mainA[line] = "  if " \o utilsPkg(sA) \o ".FailCount != 0 {"
  /\ utils' = [utils EXCEPT !.status = IF utils.FailCount # 0 THEN 2 ELSE 0]
  /\ rpc' = "exited"
  /\ UNCHANGED <<seed0, fcnmask, pkmask, pc, k, i, seedA, seedB, seedC,
                 sA, sB, sC, outA, outB, outC, mainA, mainB, mainC,
                 retA, retB, retC, probe, maxfail, line, cur, mode, ctl, acts,
                 pending, failed, rchk, ends>>

\* the seeds and settings the emitted program is run for
RunSeeds == {3747, 3821}

RunInit ==
  /\ seed0 \in RunSeeds
  /\ fcnmask = {} /\ pkmask = {}
  /\ pc = "package" /\ k = 0 /\ i = 0
  /\ seedA = seed0 /\ seedB = seed0 /\ seedC = seed0
  /\ \E t \in {s \in TunSettings :
                   s.recurPerc = 100 /\ s.methodPerc = RunTunables.methodPerc} :
       /\ sA = NewState(0, t)
       /\ sB = NewState(0, t)
       /\ sC = NewState(1, t)
  /\ outA = <<>> /\ outB = <<>> /\ outC = <<>>
  /\ mainA = <<>> /\ mainB = <<>> /\ mainC = <<>>
  /\ retA = -1 /\ retB = -1 /\ retC = -1
  /\ maxfail \in 0..MaxFail /\ NotStarted
  /\ probe = NoProbe

RunNext ==
  \/ StartPackage \/ GenPairStep \/ EmitMain
  \/ StartMain \/ CallerBegin \/ TestN \/ DeferRun \/ CheckReturn
  \/ CallerEnd \/ MainEnd

RunSpec == RunInit /\ [][RunNext]_vars

\* ------------------------------------------------------------ properties

PairsOf(out) == {out[n] : n \in DOMAIN out}

\* every pair generated so far by any of the three runs
Generated == PairsOf(outA) \cup PairsOf(outB) \cup PairsOf(outC)

\* the pairs whose caller and checker were both emitted to the end
Compared(p) == p.crashed \in {"", "Check"}

\* the pairs of package kk whose text was written
Emitted(out, kk) ==
  {n \in DOMAIN out : out[n].pidx = kk /\ out[n].emit /\ out[n].crashed = ""}

Count(q, x) == Cardinality({j \in DOMAIN q : q[j] = x})

RECURSIVE Sum(_, _)
Sum(F(_), S) ==
  IF S = {} THEN 0
  ELSE LET x == CHOOSE y \in S : TRUE IN F(x) + Sum(F, S \ {x})

\* how often the checker text written for package kk defines helper name
DefCount(out, kk, name) ==
  Sum(LAMBDA n : Count(out[n].checker.defs, name), Emitted(out, kk))

\* the helper names the written text of package kk mentions
RefsOf(out, kk) ==
  UNION {out[n].caller.refs \cup out[n].checker.refs : n \in Emitted(out, kk)}

\* the checker function itself: the checker text up to its helpers
CheckerBody(b) ==
  SubSeq(b, 1, (CHOOSE j \in DOMAIN b :
                  /\ b[j] = "// begin addr taken helpers"
                  /\ \A h \in 1..(j - 1) : b[h] # b[j]) - 1)

\* the stated condition of emitFP
PassesMasks(fn, pk) ==
  /\ (pkmask = {} \/ pk \in pkmask)
  /\ (fcnmask = {} \/ fn \in fcnmask)

NormalCall(kk, ii) ==
  "  " \o callerPkg(kk) \o ".Caller" \o ToString(ii) \o "(normal)"

ReflectCall(kk, ii) ==
  "  " \o callerPkg(kk) \o ".Caller" \o ToString(ii) \o "(reflect)"

\* the functions generated to the end so far
Funcs == {p.fp : p \in {q \in Generated : Compared(q)}}

\* the tunables Generate was called with
Setting == sA.global

\* a node of one of the kinds occurs in the type tree p
RECURSIVE HasKind(_, _)
HasKind(p, kinds) ==
  p.kind \in kinds \/ \E j \in DOMAIN p.kids : HasKind(p.kids[j], kinds)

\* a slice occurs in the type tree p
RECURSIVE HasSlice(_)
HasSlice(p) ==
  (p.kind = "array" /\ p.slice) \/ \E j \in DOMAIN p.kids : HasSlice(p.kids[j])

\* C1: for every generated pair, the caller and the checker, each started
\* on a stream seeded with the pair's seed and at value counter 1, issue the
\* same sequence of draws (primitive and bound, in order) and produce the
\* same literal at the same value counter at every primitive leaf.
SameDrawsAndLiterals ==
  \A p \in Generated :
    Compared(p) => /\ p.caller.calls = p.checker.calls
                   /\ p.caller.lits = p.checker.lits

\* a function with map-key temporaries, returns, parameters and a receiver,
\* emitted on both sides with several literals
SameDrawsAndLiteralsCase ==
  \E p \in PairsOf(outB) :
    /\ p.crashed = ""
    /\ p.fp.mapkeytmps # <<>> /\ p.fp.returns # <<>> /\ p.fp.params # <<>>
    /\ p.fp.method
    /\ Len(p.checker.lits) >= 4 /\ Len(p.checker.calls) >= 4
    /\ p.caller.lits = p.checker.lits

\* C2: after GenPair has emitted the caller and the checker of a function,
\* the Intn, Float32 and NormFloat64 counters of the two streams are equal,
\* and the Check that follows does not panic.
CountersAgree ==
  \A p \in Generated :
    Compared(p) => /\ p.caller.intncalls = p.checker.intncalls
                   /\ p.caller.f32calls = p.checker.f32calls
                   /\ p.caller.f64calls = p.checker.f64calls
                   /\ p.crashed # "Check"

\* a pair that passed Check after draws of all three primitives
CountersAgreeCase ==
  \E p \in PairsOf(outA) :
    /\ p.crashed = ""
    /\ p.checker.intncalls > 0 /\ p.checker.f32calls > 0
    /\ p.checker.f64calls > 0

\* C3: the value counter the checker holds after each parameter equals the
\* checkpoint the caller recorded for it; errs stays 0 and Generate
\* returns 0.
CheckpointsAgree ==
  /\ \A p \in Generated :
       Compared(p) =>
         p.checker.cvals = SubSeq(p.fp.values, 1, Len(p.fp.params))
  /\ sA.errs = 0 /\ sB.errs = 0 /\ sC.errs = 0
  /\ pc = "done" => retA = 0 /\ retB = 0 /\ retC = 0

\* Generate has returned 0 after a function with a blank parameter, one
\* with a control parameter and one with a parameter of several leaves
CheckpointsAgreeCase ==
  /\ pc = "done" /\ retB = 0
  /\ \E p \in PairsOf(outB) : \E n \in DOMAIN p.fp.params :
       p.fp.params[n].blank /\ Len(p.checker.cvals) = Len(p.fp.params)
  /\ \E p \in PairsOf(outB) : \E n \in DOMAIN p.fp.params :
       IsControl(p.fp.params[n])
  /\ \E p \in PairsOf(outB) : \E n \in DOMAIN p.fp.params :
       /\ NumElements(p.fp.params[n]) > 1
       /\ p.checker.cvals[n] > 2

\* C5: two runs of Generate on the same seed, tunables and masks write the
\* same text, whatever order the runtime ranges over maps in and whatever
\* state the global random source was left in.
SameOutput == outA = outC /\ mainA = mainC /\ seedA = seedC

\* both runs have finished, having written a genval helper of a function
\* with two map-key temporaries
SameOutputCase ==
  /\ pc = "done" /\ outA = outC /\ mainA = mainC
  /\ \E p \in PairsOf(outA) :
       /\ p.emit /\ Len(p.fp.mapkeytmps) >= 2
       /\ \E j \in DOMAIN p.checker.defs :
            p.checker.defs[j] \in {"genval_0", "genval_1", "genval_2"}

\* C6: within a package, every helper name the written caller or checker
\* text mentions is defined exactly once in the checker text written for
\* that package.
HelpersDefinedOnce ==
  \A kk \in 0..(NumPkgs - 1) :
    \A name \in RefsOf(outA, kk) \cup RefsOf(outB, kk) :
      /\ name \in RefsOf(outA, kk) => DefCount(outA, kk, name) = 1
      /\ name \in RefsOf(outB, kk) => DefCount(outB, kk, name) = 1

\* a suppressed function registered a helper that a later emitted function
\* of the same package needed too, and defined again
HelpersDefinedOnceCase ==
  \E m \in DOMAIN outA, n \in DOMAIN outA :
    /\ m < n /\ outA[m].pidx = outA[n].pidx
    /\ ~outA[m].emit /\ outA[n].emit /\ outA[n].crashed = ""
    /\ \E j \in DOMAIN outB[m].checker.defs,
          h \in DOMAIN outA[n].checker.defs :
         /\ outB[m].checker.defs[j] = outA[n].checker.defs[h]
         /\ outB[m].checker.defs[j] \notin
              {outB[n].checker.defs[g] : g \in DOMAIN outB[n].checker.defs}
         /\ outB[m].checker.defs[j] \in
              outB[n].caller.refs \cup outB[n].checker.refs
         /\ outA[n].checker.defs[h] \in
              outA[n].caller.refs \cup outA[n].checker.refs

\* C7: GenPair runs for every package and function whatever the masks, and
\* returns seed + 1: pair (k, i) is generated from
\* seed0 + k * num_functions + i, and its descriptor is the one the run
\* without masks generates.
SeedsIgnoreMasks ==
  /\ Len(outA) = Len(outB)
  /\ seedA = seed0 + Len(outA)
  /\ pc \in {"main", "done"} => Len(outA) = NumFuncs * NumPkgs
  /\ \A n \in DOMAIN outA :
       /\ outA[n].seed = seed0 + outA[n].pidx * NumFuncs + outA[n].fidx
       /\ n = outA[n].pidx * NumFuncs + outA[n].fidx + 1
       /\ outA[n].fp = outB[n].fp

\* a run that suppressed a function with parameters and emitted a later one
SeedsIgnoreMasksCase ==
  /\ pc = "done"
  /\ \E m \in DOMAIN outA, n \in DOMAIN outA :
       /\ m < n /\ ~outA[m].emit /\ outA[n].emit
       /\ outA[m].fp.params # <<>> /\ outA[n].fp.params # <<>>
       /\ outA[n].seed = seed0 + n - 1

\* C8: with one function suppressed by the function mask, the text of every
\* other function (its caller and its checker function) is the text the
\* run without masks writes, and every helper its text mentions is defined
\* in the checker text of its package.
OtherFunctionsUnchanged ==
  (pkmask = {} /\ Cardinality(fcnmask) = NumFuncs - 1) =>
    \A n \in DOMAIN outA :
      (outA[n].emit /\ outA[n].crashed = "" /\ outB[n].crashed = "") =>
        /\ outA[n].caller.b = outB[n].caller.b
        /\ CheckerBody(outA[n].checker.b) = CheckerBody(outB[n].checker.b)
        /\ \A name \in outA[n].caller.refs \cup outA[n].checker.refs :
             DefCount(outA, outA[n].pidx, name) >= 1

\* C9: emitFP is true exactly when the package passes the package mask and
\* the function passes the function mask, an empty mask passing everything;
\* each pair is emitted exactly when emitFP says so.
EmitFPTable ==
  /\ \A fn \in (0 - 1)..(NumFuncs - 1), pk \in 0..(NumPkgs - 1) :
       /\ emitFP(fn, pk, fcnmask, pkmask) <=> PassesMasks(fn, pk)
       /\ emitFP(fn, pk, {}, pkmask) <=> (pkmask = {} \/ pk \in pkmask)
       /\ emitFP(fn, pk, fcnmask, {}) <=> (fcnmask = {} \/ fn \in fcnmask)
       /\ emitFP(fn, pk, {}, {})
  /\ \A n \in DOMAIN outA :
       outA[n].emit <=> PassesMasks(outA[n].fidx, outA[n].pidx)

\* both masks are set, and a pair was suppressed by the function mask
\* alone, one by the package mask alone, and one was emitted
EmitFPTableCase ==
  /\ fcnmask # {} /\ pkmask # {}
  /\ \E n \in DOMAIN outA :
       ~outA[n].emit /\ outA[n].pidx \in pkmask /\ outA[n].fidx \notin fcnmask
  /\ \E n \in DOMAIN outA :
       ~outA[n].emit /\ outA[n].pidx \notin pkmask /\ outA[n].fidx \in fcnmask
  /\ \E n \in DOMAIN outA : outA[n].emit

\* C10: main calls Caller_i("normal"), and Caller_i("reflect") when reflect
\* calls are enabled, once for each pair whose text was written and for no
\* other pair.
MainCallsWritten ==
  pc = "done" =>
    \A n \in DOMAIN outA :
      LET written == outA[n].emit /\ outA[n].crashed = ""
          kk == outA[n].pidx
          ii == outA[n].fidx
      IN /\ Count(mainA, NormalCall(kk, ii)) = (IF written THEN 1 ELSE 0)
         /\ Count(mainA, ReflectCall(kk, ii)) =
              (IF written /\ sA.tunables.doReflectCall THEN 1 ELSE 0)

\* main was written after a run that suppressed some pairs and wrote others
MainCallsWrittenCase ==
  /\ pc = "done"
  /\ \E m \in DOMAIN outA, n \in DOMAIN outA :
       /\ ~outA[m].emit /\ outA[n].emit
       /\ Count(mainA, NormalCall(outA[n].pidx, outA[n].fidx)) = 1
       /\ Count(mainA, ReflectCall(outA[n].pidx, outA[n].fidx)) = 1
       /\ Count(mainA, NormalCall(outA[m].pidx, outA[m].fidx)) = 0

\* C11: under every setting of the tunables, the type tree of the receiver
\* of a generated method contains no pointer at any nesting level.
ReceiversHaveNoPointer ==
  \A f \in Funcs : f.method => ~HasKind(f.receiver, {"pointer"})

\* the type trees of function f: parameters, returns and the receiver
TreesOf(f) ==
  {f.params[j] : j \in DOMAIN f.params}
    \cup {f.returns[j] : j \in DOMAIN f.returns}
    \cup (IF f.method THEN {f.receiver} ELSE {})

\* the key of every map in the type tree p is free of maps, pointers and
\* slices
RECURSIVE MapKeysOK(_)
MapKeysOK(p) ==
  /\ p.kind = "map" =>
       ~HasKind(p.kids[1], {"map", "pointer"}) /\ ~HasSlice(p.kids[1])
  /\ \A j \in DOMAIN p.kids : MapKeysOK(p.kids[j])

\* C12: the key type of every generated map contains no map, no pointer
\* and no slice anywhere in its subtree.
MapKeysPlain ==
  \A f \in Funcs : \A p \in TreesOf(f) : MapKeysOK(p)

Containers == {"struct", "array", "map", "pointer"}

\* the depth GenParm was called with for kid j of node p, itself made at
\* depth d: a map key goes through GenMapKeyType, a typedef wraps a type
\* made at its own depth
KidDepth(p, j, d) ==
  IF p.kind = "typedef" THEN d
  ELSE IF p.kind = "map" /\ j = 1 THEN d + 2 ELSE d + 1

\* every container of the tree p, made at depth d, lies below depth cap
RECURSIVE DepthOK(_, _, _)
DepthOK(p, d, cap) ==
  /\ p.kind \in Containers => d < cap
  /\ \A j \in DOMAIN p.kids : DepthOK(p.kids[j], KidDepth(p, j, d), cap)

\* the tree p, made at depth d, has a leaf that GenParm made at depth cap
\* or deeper
RECURSIVE HasCapped(_, _, _)
HasCapped(p, d, cap) ==
  \/ d >= cap /\ p.kind \notin Containers /\ p.kind # "typedef"
  \/ \E j \in DOMAIN p.kids : HasCapped(p.kids[j], KidDepth(p, j, d), cap)

\* C13: in every type tree a struct, array, map or pointer node occurs
\* only at a depth strictly below structDepth, and no call of GenParm at
\* depth structDepth or more ends in the panic of a container case.
NestingBounded ==
  /\ \A q \in Generated : q.crashed # "GenFunc"
  /\ \A f \in Funcs : \A p \in TreesOf(f) :
       DepthOK(p, 0, Setting.structDepth)

\* a type tree with a leaf made at depth structDepth or more, under the
\* deepest setting
NestingBoundedCase ==
  /\ Setting.structDepth = 4
  /\ \E f \in Funcs : \E p \in TreesOf(f) :
       HasCapped(p, 0, Setting.structDepth)
  /\ NestingBounded

\* the top-level parameters of f that are controls, and those of an
\* integer type
Controls(f) == {j \in DOMAIN f.params : IsControl(f.params[j])}

IntParams(f) ==
  {j \in DOMAIN f.params :
     f.params[j].kind = "num" /\ f.params[j].tag \in {"int", "uint"}}

\* C14: a function returned by GenFunc has exactly one control parameter
\* when recur is set and none when it is not, never two; and recur is not
\* set when no top-level integer parameter was generated.
OneControlIffRecur ==
  \A f \in Funcs :
    /\ Cardinality(Controls(f)) = (IF f.recur THEN 1 ELSE 0)
    /\ IntParams(f) = {} => ~f.recur

\* every function was asked to be recursive; one with several integer
\* parameters is, and one with parameters but no integer is not
OneControlIffRecurCase ==
  /\ Setting.recurPerc = 100
  /\ \E f \in Funcs : f.recur /\ Cardinality(IntParams(f)) >= 2
  /\ \E f \in Funcs : ~f.recur /\ f.params # <<>> /\ IntParams(f) = {}
  /\ OneControlIffRecur

BlankMethod(f) == f.method /\ f.receiver.blank

\* C16 as stated: with recurPerc = 100 every function with a top-level
\* integer parameter is recursive and has one control parameter, method or
\* not.
AllIntegerFunctionsRecur ==
  Setting.recurPerc = 100 =>
    \A f \in Funcs :
      IntParams(f) # {} => f.recur /\ Cardinality(Controls(f)) = 1

\* C16: with recurPerc = 100 every function with a top-level integer
\* parameter is recursive and has one control parameter, unless it is a
\* method whose receiver is blank; such a method is never recursive and has
\* no control parameter.
IntegerFunctionsRecur ==
  Setting.recurPerc = 100 =>
    \A f \in Funcs :
      /\ IntParams(f) # {} /\ ~BlankMethod(f) =>
           f.recur /\ Cardinality(Controls(f)) = 1
      /\ BlankMethod(f) => ~f.recur /\ Controls(f) = {}

\* every function was asked to be recursive: a method and a plain function
\* with integer parameters are, a method with integer parameters and a
\* blank receiver is not
IntegerFunctionsRecurCase ==
  /\ Setting.recurPerc = 100
  /\ \E f \in Funcs : f.method /\ ~f.receiver.blank /\ f.recur
  /\ \E f \in Funcs : ~f.method /\ f.recur
  /\ \E f \in Funcs : BlankMethod(f) /\ IntParams(f) # {} /\ ~f.recur
  /\ IntegerFunctionsRecur

\* the pairs of a recursive function whose two texts were emitted
RecursivePairs == {p \in Generated : Compared(p) /\ p.fp.recur}

\* the index of the control parameter of a recursive function
CtlIdx(f) == CHOOSE j \in DOMAIN f.params : IsControl(f.params[j])

\* the texts by which the checker may name parameter or return n of
\* address-taken mode addr (v is "p" or "r"), given the helpers it mentions
RefForms(v, n, addr, helpers) ==
  IF addr = notAddrTaken THEN {v \o ToString(n)}
  ELSE IF addr \in {addrTakenSimple, addrTakenHeap}
  THEN {"(*a" \o v \o ToString(n) \o ")"}
  ELSE {h \o "(a" \o v \o ToString(n) \o ")" : h \in helpers}

\* the ways of naming every parameter of f in a recursive call: a blank
\* one by its brc variable, any other by a reference to it
ArgChoices(f, helpers) ==
  LET forms(j) == IF f.params[j].blank /\ ~IsControl(f.params[j])
                  THEN {"brc" \o ToString(j - 1)}
                  ELSE RefForms("p", j - 1, f.params[j].addr, helpers)
  IN {a \in [DOMAIN f.params -> UNION {forms(j) : j \in DOMAIN f.params}] :
        \A j \in DOMAIN f.params : a[j] \in forms(j)}

\* the self-call of f with arguments a, the control less ControlStep
RECURSIVE SelfArgs(_, _, _)
SelfArgs(f, a, j) ==
  IF j > Len(f.params) THEN ""
  ELSE (IF j > 1 THEN ", " ELSE "") \o " " \o a[j]
         \o (IF IsControl(f.params[j]) THEN "-" \o ToString(ControlStep)
             ELSE "")
         \o SelfArgs(f, a, j + 1)

SelfCall(f, a) ==
  (IF f.method THEN " rcvr." ELSE " ") \o "Test" \o ToString(f.idx) \o "("
    \o SelfArgs(f, a, 1) \o ")"

\* r0, r1, ... with prefix v
RECURSIVE Names(_, _, _)
Names(v, j, n) ==
  IF j >= n THEN ""
  ELSE (IF j > 0 THEN ", " ELSE "") \o v \o ToString(j) \o Names(v, j + 1, n)

\* the lines after line j of b return the values named v0, v1, ...: at
\* once, or through one assignment to every return and a bare return
ReturnsAt(b, j, f, v, helpers) ==
  LET nr == Len(f.returns)
  IN IF \A ri \in DOMAIN f.returns : f.returns[ri].addr = notAddrTaken
     THEN j + 1 \in DOMAIN b /\ b[j + 1] = "  return " \o Names(v, 0, nr)
     ELSE /\ j + nr + 1 \in DOMAIN b
          /\ b[j + nr + 1] = "  return"
          /\ \A ri \in DOMAIN f.returns :
               LET val == v \o ToString(ri - 1)
                   n == ToString(ri - 1)
                   addr == f.returns[ri].addr
               IN b[j + ri] \in
                    (IF addr = notAddrTaken THEN {"  r" \o n \o " = " \o val}
                     ELSE IF addr \in {addrTakenSimple, addrTakenHeap}
                     THEN {"  (*ar" \o n \o ") = " \o val}
                     ELSE {"  " \o h \o "(ar" \o n \o ", " \o val \o ")" :
                             h \in helpers})

\* the lines a self-call may stand on
SelfCallLines(f, call) ==
  {"  return " \o call, call,
   "  " \o Names("rct", 0, Len(f.returns)) \o " := " \o call}

\* the texts of the recursive pair p pass ControlStart, stop at ControlStop
\* returning the return constants, and call on with the control one less
\* and every other parameter as it came
RecursionText(p) ==
  LET f == p.fp
      c == CtlIdx(f)
      b == CheckerBody(p.checker.b)
  IN /\ \E j \in DOMAIN p.caller.b :
          p.caller.b[j] = "  var p" \o ToString(c - 1) \o "  "
                            \o f.params[c].qn \o " = 10"
     /\ \E a \in ArgChoices(f, p.checker.refs) :
          \E g, r \in DOMAIN b :
            /\ g < r
            /\ b[g] = "  if " \o a[c] \o " == 0 {"
            /\ ReturnsAt(b, g, f, "rc", p.checker.refs)
            /\ b[r] \in SelfCallLines(f, SelfCall(f, a))
            /\ \A r2 \in DOMAIN b :
                 b[r2] \in SelfCallLines(f, SelfCall(f, a)) => r2 = r

\* C15 (the texts): for every recursive function the caller passes 10 for
\* the control, the checker returns the return constants when the control
\* is 0, and its one recursive call passes the control less one and every
\* other parameter unchanged.
RecursionTexts == \A p \in RecursivePairs : RecursionText(p)

\* the program is inside a Caller
InCaller == rpc \in {"test", "unwind", "returns"}

\* C15: for every recursive function the texts pass control = 10, stop at
\* control == 0 and call on with control-1 and the other parameters
\* unchanged; and a Caller of it that meets no mismatch makes exactly 11
\* activations of the checker before the checker returns to it, never more.
ControlCountsDown ==
  /\ RecursionTexts
  /\ InCaller /\ CurF.recur =>
       /\ acts <= 11
       /\ rpc # "test" /\ ~failed => acts = 11

\* the checker of a recursive method whose control parameter has its
\* address taken has returned to its Caller after 11 activations
ControlCountsDownCase ==
  /\ rpc = "returns" /\ CurF.recur /\ ~failed /\ acts = 11
  /\ CurF.params[CtlIdx(CurF)].addr # notAddrTaken
  /\ \E p \in RecursivePairs : p.fp.method
  /\ ControlCountsDown

\* the failures counted at the EndFcn calls so far
EndsTotal == ends.param + ends.ret

\* C17: BeginFcn leaves ParamFailCount and ReturnFailCount 0 and FailCount
\* as it was, EndFcn adds both to FailCount: FailCount is at all times the
\* number of parameter and return failures counted in the Caller
\* invocations completed so far, which is the number of error lines they
\* printed.
FailCountIsTotal ==
  /\ utils.FailCount = EndsTotal
  /\ rpc = "test" /\ acts = 0 =>
       utils.ParamFailCount = 0 /\ utils.ReturnFailCount = 0
  /\ rpc = "main" /\ ends.n > 0 =>
       /\ ends.lastp = utils.ParamFailCount
       /\ ends.lastr = utils.ReturnFailCount
  /\ rpc = "main" => utils.stderr = utils.FailCount
  /\ InCaller =>
       utils.stderr = utils.FailCount + utils.ParamFailCount
                        + utils.ReturnFailCount

\* BeginFcn has just run after an invocation that counted failures, and
\* the invocations completed counted failures of both kinds
FailCountIsTotalCase ==
  /\ rpc = "test" /\ acts = 0 /\ ends.n >= 2
  /\ ends.lastp + ends.lastr > 0
  /\ ends.param > 0 /\ ends.ret > 0
  /\ FailCountIsTotal

\* the sum earlyexit compares with the limit
FailSum == utils.ParamFailCount + utils.FailCount + utils.ReturnFailCount

\* C18 as stated: every call of NoteFailure or NoteFailureElem counts and
\* prints a line, and the program does not go on once the sum of the three
\* counters has passed maxfail.
EveryCallCounts ==
  /\ utils.stderr = utils.calls
  /\ utils.status # 1 => FailSum <= maxfail

\* C18: a call with isret set while ParamFailCount is not 0 counts and
\* prints nothing; every other call adds one to its counter, prints one
\* line and exits with status 1 when the sum of the three counters has
\* passed maxfail, so the sum is maxfail + 1 at such an exit and at most
\* maxfail while a Caller runs; a run that no call ended exits with 2 when
\* FailCount is not 0 and with 0 when it is.
CountedCallsExit ==
  /\ utils.stderr <= utils.calls
  /\ utils.stderr # utils.calls =>
       \/ utils.ParamFailCount # 0
       \/ ends.param # 0
  /\ InCaller \/ utils.status = 1 =>
       utils.stderr = FailSum
  /\ InCaller => FailSum <= maxfail
  /\ rpc = "main" => utils.FailCount <= maxfail
  /\ utils.status = 1 => rpc = "exited" /\ FailSum = maxfail + 1
  /\ rpc = "exited" /\ utils.status # 1 =>
       /\ utils.status = (IF utils.FailCount # 0 THEN 2 ELSE 0)
       /\ utils.FailCount = EndsTotal
  /\ rpc = "exited" <=> utils.status \in {0, 1, 2} /\ rpc # "panic"

\* a call was left uncounted after a parameter failure, the run went on
\* with the sum of the counters above the limit after EndFcn, and a later
\* counted call ended it with status 1
CountedCallsExitCase ==
  /\ utils.status = 1 /\ maxfail >= 1
  /\ utils.stderr < utils.calls
  /\ ends.over
  /\ CountedCallsExit

\* the line on which the Caller of pair p would compare return ri, named
\* rv, were the comparison conditioned on ParamFailCount
GuardedCheck(p, ri, rv) ==
  LET f == p.fp
      d == genDeref(f.returns[ri])
      n == ToString(ri - 1)
  IN "  if " \o utilsPkg(sA) \o ".ParamFailCount == 0 && "
       \o (IF HasPointer(d.p)
           THEN "!" \o eqFuncRef([pkidx |-> p.pidx], f, d.p, TRUE) \o "("
                  \o d.star \o rv \o n \o ", " \o d.star \o "c" \o n \o ")"
           ELSE d.star \o rv \o n \o " != " \o d.star \o "c" \o n)
       \o " {"

\* the returns of f that have a pointer in them and something to compare
PointerReturns(f) ==
  {ri \in DOMAIN f.returns :
     HasPointer(f.returns[ri]) /\ NumElements(genDeref(f.returns[ri]).p) # 0}

\* C19: the Caller compares every return that has a pointer in it only when
\* ParamFailCount is 0, in the normal and in the reflect path, and so no
\* comparison of a return of a checker that returned early takes the
\* target of a nil pointer.
ReturnChecksGuarded ==
  /\ \A p \in {q \in Generated : Compared(q) /\ q.emit} :
       \A ri \in PointerReturns(p.fp) :
         \A rv \in {"r"} \cup (IF Setting.doReflectCall THEN {"rr"} ELSE {}) :
           \E j \in DOMAIN p.caller.b : p.caller.b[j] = GuardedCheck(p, ri, rv)
  /\ rpc # "panic"

\* the check lines are conditioned for the returns that are pointers
PointerChecksGuarded ==
  \A p \in {q \in Generated : Compared(q) /\ q.emit} :
    \A ri \in PointerReturns(p.fp) :
      genDeref(p.fp.returns[ri]).star # "" =>
        \E j \in DOMAIN p.caller.b : p.caller.b[j] = GuardedCheck(p, ri, "r")

\* a Caller was written for a function that returns a pointer
PointerChecksGuardedCase ==
  \E p \in {q \in Generated : Compared(q) /\ q.emit} :
    \E ri \in PointerReturns(p.fp) : genDeref(p.fp.returns[ri]).star # ""

\* the pairs whose two texts were written
Written == {q \in Generated : Compared(q) /\ q.emit}

BlankParams(f) == {pi \in DOMAIN f.params : f.params[pi].blank}

\* a parameter list of f that declares the parameters in S under their
\* names pN and the others as _ (decl), or names the arguments in S
RECURSIVE ListOf(_, _, _, _, _)
ListOf(f, S, pi, decl, all) ==
  IF pi > Len(f.params) THEN ""
  ELSE IF ~all /\ pi \notin S THEN ListOf(f, S, pi + 1, decl, all)
  ELSE LET n == IF pi \in S THEN "p" \o ToString(pi - 1) ELSE "_"
           rest == ListOf(f, S, pi + 1, decl, all)
       IN (IF decl THEN n \o " " \o f.params[pi].tn ELSE n)
            \o (IF rest = "" THEN "" ELSE ", " \o rest)

\* the first line of the checker of f when it declares the parameters in
\* S by name
SigLine(f, S) ==
  "func"
    \o (IF f.method
        THEN " (" \o (IF f.receiver.blank THEN "_" ELSE "rcvr") \o " "
               \o f.receiver.tn \o ")"
        ELSE "")
    \o " Test" \o ToString(f.idx) \o "(" \o ListOf(f, S, 1, TRUE, TRUE)
    \o ") (" \o SigList(f.returns, "r", 1) \o ") {"

\* the line that reports a mismatch of leaf n of parameter pi (1-based)
FailLine(p, pi, n) ==
  "    NoteFailureElem(" \o ToString(complexityMeasure(p.fp)) \o ", "
    \o ToString(p.pidx) \o ", " \o ToString(p.fp.idx) \o ", parm, "
    \o ToString(pi - 1) \o ", " \o ToString(n) \o "); return }"

Has(b, ln) == \E j \in DOMAIN b : b[j] = ln

\* C20: the checker declares a blank parameter as _ and every other one by
\* name, reports no mismatch of any leaf of a blank parameter in its body
\* or in its deferred closure, neither declares a blank parameter in the
\* closure nor passes it to the closure, and has the value counter after
\* each parameter, blank or not, where the caller had it.
BlankParamsUnused ==
  \A p \in Written :
    LET f == p.fp
        b == p.checker.b
    IN /\ \A S \in SUBSET DOMAIN f.params :
            Has(b, SigLine(f, S)) <=> S = DOMAIN f.params \ BlankParams(f)
       /\ \A pi \in BlankParams(f) :
            \A n \in 0..NumElements(f.params[pi]) :
              ~Has(b, FailLine(p, pi, n))
       /\ \A S \in SUBSET DOMAIN f.params :
            LET head == "  defer func(" \o ListOf(f, S, 1, TRUE, FALSE)
                          \o ") {"
                call == "  } (" \o ListOf(f, S, 1, FALSE, FALSE) \o ")"
            IN /\ Has(b, head) \/ Has(b, call) =>
                    /\ Defers(f) /\ Has(b, head) /\ Has(b, call)
                    /\ S \cap BlankParams(f) = {}
                    /\ S \cap Controls(f) = {}
               /\ Defers(f) /\ S = {pi \in DOMAIN f.params :
                                       f.dodefp[pi] < 50}
                                    \ (BlankParams(f) \cup Controls(f)) =>
                    Has(b, head) /\ Has(b, call)
       /\ p.checker.cvals = SubSeq(f.values, 1, Len(f.params))

\* a checker with a deferred closure was written for a function with a
\* blank parameter that has leaves, takes values and was drawn to be
\* passed to the closure, and with another parameter that is passed and
\* checked there
BlankParamsUnusedCase ==
  /\ \E p \in Written :
       LET f == p.fp
       IN /\ Defers(f)
          /\ \E pi \in BlankParams(f) :
               /\ f.dodefp[pi] < 50 /\ NumElements(f.params[pi]) > 0
               /\ p.checker.cvals[pi] >
                    (IF pi = 1 THEN 1 ELSE p.checker.cvals[pi - 1])
          /\ \E pi \in DOMAIN f.params :
               /\ DeferPassed(f, pi) /\ ParamChecked(f, pi)
               /\ \E n \in 0..NumElements(f.params[pi]) :
                    Has(p.checker.b, FailLine(p, pi, n))
  /\ BlankParamsUnused

\* ------------------------------------------- every address on the heap

\* the settings under which every address taken goes to a global: the
\* run's own recursion rate, and every function asked to be recursive
HeapSettings ==
  {[t EXCEPT !.takeAddress = TRUE, !.takenFraction = 100,
             !.addrFractions = <<0, 0, 0, 100>>] :
     t \in {RunTunables, [RunTunables EXCEPT !.recurPerc = 100]}}

\* the seeds Generate is started on under the heap settings
HeapSeeds == (0..MaxSeed) \cup {63, 82, 3747}

\* Generate called without masks under the heap settings
HeapInit ==
  /\ seed0 \in HeapSeeds
  /\ fcnmask = {} /\ pkmask = {}
  /\ pc = "package" /\ k = 0 /\ i = 0
  /\ seedA = seed0 /\ seedB = seed0 /\ seedC = seed0
  /\ \E t \in HeapSettings :
       /\ sA = NewState(0, t)
       /\ sB = NewState(0, t)
       /\ sC \in {NewState(r, t) : r \in 1..MaxRnd}
  /\ outA = <<>> /\ outB = <<>> /\ outC = <<>>
  /\ mainA = <<>> /\ mainB = <<>> /\ mainC = <<>>
  /\ retA = -1 /\ retB = -1 /\ retC = -1
  /\ maxfail = MaxFail /\ NotStarted
  /\ probe = NoProbe

HeapSpec == HeapInit /\ [][Next]_vars

\* the parameters and returns of f that are not blank
NonBlank(lst) == {j \in DOMAIN lst : ~lst[j].blank}

\* the checker body b stores the address of variable n \o j to a global
StoresAddr(b, n, j) ==
  \E h \in DOMAIN b :
    \E g \in 0..Len(b) :
      b[h] = "  gvar_" \o ToString(g) \o " = a" \o n \o ToString(j - 1)

\* some address is stored to a global in the checker of pair p
StoresSomeAddr(p) ==
  \/ \E j \in DOMAIN p.fp.params : StoresAddr(p.checker.b, "p", j)
  \/ \E j \in DOMAIN p.fp.returns : StoresAddr(p.checker.b, "r", j)

\* C21: under the heap settings every parameter and every return that is
\* not blank has its address stored on the heap, and the checker written
\* for a function with at least one parameter stores at least one address
\* to a global.
HeapEverywhere ==
  /\ \A f \in Funcs :
       /\ \A j \in NonBlank(f.params) : f.params[j].addr = addrTakenHeap
       /\ \A j \in NonBlank(f.returns) : f.returns[j].addr = addrTakenHeap
  /\ \A p \in Written : Len(p.fp.params) >= 1 => StoresSomeAddr(p)

\* ------------------------------------------------- what a mask keeps

\* the helper names the checker text written for package kk defines
DefsOf(out, kk) ==
  UNION {{out[n].checker.defs[j] : j \in DOMAIN out[n].checker.defs} :
           n \in Emitted(out, kk)}

\* a function mask alone is in force
FcnMaskOnly == fcnmask # {} /\ pkmask = {}

AfterDraws(n) ==
  FuncDraws(NewGenState(NewWrapRand(outA[n].seed, sA.rnd), sA.global,
                        sA.tstack, outA[n].fidx, outA[n].pidx)).g

\* C23: every scoped override gives back the weights it found: the
\* receiver block of a method leaves s.tunables as they were when it
\* pushed them, and with every scope inside GenFunc closed, GenFunc
\* returns with the tunables it was entered with and with the snapshot
\* stack empty.
ScopesRestore ==
  /\ \A f \in Funcs : f.tstack = <<>> /\ f.tunables = Setting
  /\ \A n \in DOMAIN outA :
       Compared(outA[n]) /\ outA[n].fp.method =>
         GenReceiver(AfterDraws(n)).g.tunables = AfterDraws(n).tunables

\* --------------------------------------- precludeSelectedTypes by itself

\* every variable of Generate and of the emitted program at rest, with the
\* generator past its last step
AtRest ==
  /\ seed0 = 0 /\ fcnmask = {} /\ pkmask = {}
  /\ pc = "done" /\ k = 0 /\ i = 0
  /\ seedA = 0 /\ seedB = 0 /\ seedC = 0
  /\ sA = NewState(0, RunTunables)
  /\ sB = NewState(0, RunTunables)
  /\ sC = NewState(0, RunTunables)
  /\ outA = <<>> /\ outB = <<>> /\ outC = <<>>
  /\ mainA = <<>> /\ mainB = <<>> /\ mainC = <<>>
  /\ retA = -1 /\ retB = -1 /\ retC = -1
  /\ maxfail = MaxFail /\ NotStarted

genvars == <<seed0, fcnmask, pkmask, pc, k, i, seedA, seedB, seedC,
             sA, sB, sC, outA, outB, outC, mainA, mainB, mainC,
             retA, retB, retC>>

\* the default weights with those of the kinds in S handed to kind d
Moved(S, d) ==
  [j \in 1..9 |->
     IF j \in S THEN 0
     ELSE IF j = d
     THEN defaultTypeFractions[j]
            + SeqSum([h \in 1..9 |->
                        IF h \in S THEN defaultTypeFractions[h] ELSE 0])
     ELSE defaultTypeFractions[j]]

\* the weight vectors precludeSelectedTypes is called on: each sums to 100
TfVectors ==
  {Moved(S, d) :
     S \in SUBSET {StructTfIdx, ArrayTfIdx, MapTfIdx, PointerTfIdx},
     d \in {NumericTfIdx, StringTfIdx}}

\* the kinds it is asked to preclude: at least one, and not all of them
AvoidSets == (SUBSET (1..9)) \ {{}, 1..9}

PrecInit ==
  /\ AtRest
  /\ probe \in {[op |-> "preclude", avoid |-> a, done |-> FALSE,
                 g |-> NewGenState(NewWrapRand(0, 0),
                                   [tunables EXCEPT !.typeFractions = v],
                                   <<>>, 0, 0)] :
                  v \in TfVectors, a \in AvoidSets}

\* s.precludeSelectedTypes(avoid...)
Preclude ==
  /\ probe.op = "preclude" /\ ~probe.done
  /\ probe' = [probe EXCEPT !.done = TRUE,
                            !.g = precludeSelectedTypes(@, probe.avoid)]
  /\ UNCHANGED <<genvars, rvars>>

PrecNext == Preclude

PrecSpec == PrecInit /\ [][PrecNext]_vars

\* the weights a finished probe started from
ProbeBefore == probe.g.global.typeFractions

\* C24: precludeSelectedTypes leaves the precluded weights at 0, takes
\* nothing from any other weight and keeps the sum at 100; when the
\* precluded weights were all 0 already the vector is left as it was, and
\* in no case does checkTunables fail.
PrecludeKeepsSum ==
  probe.op = "preclude" /\ probe.done =>
    LET after == probe.g.tunables.typeFractions IN
      /\ \A j \in probe.avoid : after[j] = 0
      /\ \A j \in (1..9) \ probe.avoid : after[j] >= ProbeBefore[j]
      /\ SeqSum(after) % 256 = 100
      /\ ~probe.g.panicked
      /\ (\A j \in probe.avoid : ProbeBefore[j] = 0) => after = ProbeBefore

\* ------------------------------------- returns after a failed parameter

\* a step of the emitted program in which the Caller deals with a return
\* while a parameter failure of this call is on record
ReturnAfterParamFailure ==
  rchk' # rchk /\ rpc = "returns" /\ utils.ParamFailCount > 0

\* C25: between BeginFcn and EndFcn, once ParamFailCount is above 0, a
\* step in which the Caller deals with a return changes none of the three
\* counters and prints no line; and whenever ReturnFailCount is above 0,
\* ParamFailCount is 0.
ReturnsSuppressed ==
  [][/\ utils'.ReturnFailCount > 0 => utils'.ParamFailCount = 0
     /\ ReturnAfterParamFailure =>
          /\ utils'.ParamFailCount = utils.ParamFailCount
          /\ utils'.ReturnFailCount = utils.ReturnFailCount
          /\ utils'.FailCount = utils.FailCount
          /\ utils'.stderr = utils.stderr]_vars

\* a Caller is checking returns with a parameter failure on record, a call
\* of NoteFailure for a return of this call has been dropped, and no
\* return failure is counted
ReturnsSuppressedCase ==
  /\ rpc = "returns" /\ rchk > 1
  /\ utils.ParamFailCount > 0 /\ utils.ReturnFailCount = 0
  /\ utils.calls > utils.stderr
  /\ ends.n = 0

\* ------------------------------------------ GenParm asked for a control

\* the streams GenParm is called on by itself
MaxCtlSeed == 99

CtlInit ==
  /\ AtRest
  /\ probe \in {[op |-> "genparm", done |-> FALSE, p |-> NoParm,
                 g |-> NewGenState(NewWrapRand(sd, 0), t, <<>>, 0, 0)] :
                  sd \in 0..MaxCtlSeed, t \in {RunTunables} \cup HeapSettings}

\* s.GenParm(f, 0, true, pidx)
GenControl ==
  /\ probe.op = "genparm" /\ ~probe.done
  /\ probe' = [probe EXCEPT !.done = TRUE,
                            !.p = GenParm(probe.g, 0, TRUE).p]
  /\ UNCHANGED <<genvars, rvars>>

CtlNext == GenControl

CtlSpec == CtlInit /\ [][CtlNext]_vars

IsInteger(p) == p.kind = "num" /\ p.tag \in {"int", "uint"}

\* C26 as stated: GenParm asked for a control returns an integer that is a
\* control, is not blank and has not its address taken.
ControlForced ==
  probe.op = "genparm" /\ probe.done =>
    /\ IsInteger(probe.p) /\ IsControl(probe.p)
    /\ ~probe.p.blank /\ probe.p.addr = notAddrTaken

\* C26: GenParm asked for a control returns a parameter that is not blank,
\* whatever the blank draw was; it is a control exactly when the kind
\* drawn is the integer kind, and any other kind can come out; and its
\* address is taken as the draws say, as for any other parameter.
ControlWhenInteger ==
  probe.op = "genparm" /\ probe.done =>
    /\ ~probe.p.blank
    /\ IsControl(probe.p) <=> IsInteger(probe.p)
    /\ probe.p.addr = ParmDraws(probe.g, 0).addr

\* GenParm asked for a control has returned a control whose address is
\* taken
ControlWhenIntegerCase ==
  /\ probe.op = "genparm" /\ probe.done
  /\ IsControl(probe.p) /\ probe.p.addr # notAddrTaken

\* ------------------------------------- parameters whose address is taken

\* the parameters of f whose address the checker takes
AddrTaken(f) == {pi \in DOMAIN f.params : f.params[pi].addr # notAddrTaken}

\* C27: in a written checker a parameter whose address is taken is bound
\* once as apN := &pN, stored to a global when it goes to the heap, tested
\* through its address in the control guard, and not named directly where
\* the deferred closure is declared and called.
AddrTakenIndirect ==
  \A p \in Written :
    LET f == p.fp
        b == CheckerBody(p.checker.b)
    IN \A pi \in AddrTaken(f) :
         LET n == ToString(pi - 1) IN
           /\ Count(b, "  ap" \o n \o " := &p" \o n) = 1
           /\ f.params[pi].addr = addrTakenHeap => StoresAddr(b, "p", pi)
           /\ IsControl(f.params[pi]) =>
                /\ ~Has(b, "  if p" \o n \o " == 0 {")
                /\ \E r \in RefForms("p", pi - 1, f.params[pi].addr,
                                      p.checker.refs) :
                     Has(b, "  if " \o r \o " == 0 {")
           /\ Defers(f) /\ DeferPassed(f, pi) =>
                /\ ~Has(b, "  defer func(" \o DeferList(f, 1, 0, TRUE)
                             \o ") {")
                /\ ~Has(b, "  } (" \o DeferList(f, 1, 0, FALSE) \o ")")

\* ------------------------------------------------ the helper registries

\* the five families of helpers: the map of each and the prefix of its
\* names
Families ==
  {[map |-> "derefFuncs", prefix |-> "deref_"],
   [map |-> "assignFuncs", prefix |-> "retassign_"],
   [map |-> "allocFuncs", prefix |-> "New_"],
   [map |-> "globVars", prefix |-> "gvar_"],
   [map |-> "genvalFuncs", prefix |-> "genval_"]}

\* in each family of registry reg: a key has one name, a name has one key,
\* and the names are the prefix numbered from 0 up without a gap
RegistryDense(reg) ==
  \A fam \in Families :
    LET m == reg[fam.map]
    IN /\ \A r1 \in m, r2 \in m : (r1.tag = r2.tag) <=> (r1.name = r2.name)
       /\ {r.name : r \in m} =
            {fam.prefix \o ToString(j) : j \in 0..(Cardinality(m) - 1)}

\* every key registry reg holds and registry reg2 holds too has the same
\* name in both
NamesKept(reg, reg2) ==
  \A fam \in Families :
    \A r \in reg[fam.map] :
      HasTag(reg2[fam.map], r.tag) => Lookup(reg2[fam.map], r.tag) = r.name

\* C28: after every GenPair, with its registrations and its flush or
\* rollback, each helper family of each run maps distinct keys to distinct
\* names numbered 0 .. n-1 for its n keys; within a package a key keeps
\* its name as long as it is registered; and no helper name is defined
\* twice in the text written for a package.
RegistryNamesDense ==
  [][/\ RegistryDense(sA'.reg) /\ RegistryDense(sB'.reg)
     /\ RegistryDense(sC'.reg)
     /\ pc = "pair" =>
          /\ NamesKept(sA.reg, sA'.reg) /\ NamesKept(sB.reg, sB'.reg)
          /\ NamesKept(sC.reg, sC'.reg)
     /\ \A kk \in 0..(NumPkgs - 1) :
          /\ \A name \in DefsOf(outA', kk) : DefCount(outA', kk, name) = 1
          /\ \A name \in DefsOf(outB', kk) : DefCount(outB', kk, name) = 1]_vars

\* in the package being generated a suppressed function had a helper
\* registered and rolled back, and a later function that was written
\* defines a helper of that name, which its family still holds
RegistryNamesDenseCase ==
  /\ pc = "pair"
  /\ \E m \in DOMAIN outA, n \in DOMAIN outA :
       /\ m < n /\ outA[m].pidx = k /\ outA[n].pidx = k
       /\ ~outA[m].emit /\ outA[n].emit /\ outA[n].crashed = ""
       /\ \E j \in DOMAIN outB[m].checker.defs,
             h \in DOMAIN outA[n].checker.defs :
            /\ outB[m].checker.defs[j] = outA[n].checker.defs[h]
            /\ \E fam \in Families : \E r \in sA.reg[fam.map] :
                 r.name = outA[n].checker.defs[h]
  /\ RegistryDense(sA.reg)

\* ------------------------------------------------- the ranges of counts

\* the settings the counts are drawn under: the run's own, and short
\* arrays
DrawSettings == {RunTunables, [RunTunables EXCEPT !.nArrayElements = 2]}

\* the state GenFunc or GenParm is in on stream sd under setting t
OnStream(sd, t) == NewGenState(NewWrapRand(sd, 0), t, <<>>, 0, 0)

DrawInit ==
  /\ AtRest
  /\ probe \in {[op |-> o, done |-> FALSE, sd |-> sd, t |-> t,
                 numParams |-> 0, numReturns |-> 0, nel |-> 0] :
                  o \in {"counts", "array"}, sd \in 0..MaxCtlSeed,
                  t \in DrawSettings}

\* the opening draws of GenFunc: numParams, numReturns
DrawCounts ==
  /\ probe.op = "counts" /\ ~probe.done
  /\ LET fd == FuncDraws(OnStream(probe.sd, probe.t))
     IN probe' = [probe EXCEPT !.done = TRUE,
                               !.numParams = fd.numParams,
                               !.numReturns = fd.numReturns]
  /\ UNCHANGED <<genvars, rvars>>

\* the array case of GenParm: nel
DrawArray ==
  /\ probe.op = "array" /\ ~probe.done
  /\ probe' = [probe EXCEPT
                 !.done = TRUE,
                 !.nel = GenArrayDraws(OnStream(probe.sd, probe.t)).nel]
  /\ UNCHANGED <<genvars, rvars>>

DrawNext == DrawCounts \/ DrawArray

DrawSpec == DrawInit /\ [][DrawNext]_vars

\* the counts GenFunc draws lie in 0..nParmRange and 0..nReturnRange, and
\* each of these values is drawn on some stream
CountsCover(t) ==
  /\ \A v \in 0..t.nParmRange : \E sd \in 0..MaxCtlSeed :
       FuncDraws(OnStream(sd, t)).numParams = v
  /\ \A v \in 0..t.nReturnRange : \E sd \in 0..MaxCtlSeed :
       FuncDraws(OnStream(sd, t)).numReturns = v

\* each of the element counts lo..hi is drawn on some stream
ArrayCovers(t, lo, hi) ==
  \A v \in lo..hi : \E sd \in 0..MaxCtlSeed :
    GenArrayDraws(OnStream(sd, t)).nel = v

BoundSettings ==
  {RunTunables,
   [RunTunables EXCEPT !.nArrayElements = 0],
   [RunTunables EXCEPT !.nStructFields = 0],
   [RunTunables EXCEPT !.nStructFields = 2]}

\* Generate called without masks under these settings
BoundInit ==
  /\ seed0 \in HeapSeeds
  /\ fcnmask = {} /\ pkmask = {}
  /\ pc = "package" /\ k = 0 /\ i = 0
  /\ seedA = seed0 /\ seedB = seed0 /\ seedC = seed0
  /\ \E t \in BoundSettings :
       /\ sA = NewState(0, t)
       /\ sB = NewState(0, t)
       /\ sC \in {NewState(r, t) : r \in 1..MaxRnd}
  /\ outA = <<>> /\ outB = <<>> /\ outC = <<>>
  /\ mainA = <<>> /\ mainB = <<>> /\ mainC = <<>>
  /\ retA = -1 /\ retB = -1 /\ retC = -1
  /\ maxfail = MaxFail /\ NotStarted
  /\ probe = NoProbe

BoundSpec == BoundInit /\ [][Next]_vars

\* the bounds GenParm hands to Intn for the struct fields at every depth
\* that can hold a struct, and for the array elements
BoundsPositive(t) ==
  /\ t.nArrayElements >= 1
  /\ \A d \in 0..(t.structDepth - 1) : t.nStructFields \div (d + 1) >= 1

\* C30: under every setting checkTunables accepts, the bounds GenParm
\* hands to Intn are at least 1 and no GenFunc ends in a panic.
IntnBoundsPositive ==
  checkTunables(Setting) =>
    /\ BoundsPositive(Setting)
    /\ \A p \in Generated : p.crashed # "GenFunc"

====
